---------------------------- MODULE Spec2Model ----------------------------
(***************************************************************************)
(* Comedy Bang Bang Universe explorer (src/unnamed/part_000, the later of  *)
(* the two near-identical variants; src/index.js has the same interaction  *)
(* code).  The module models                                               *)
(*   - loadData: the normalizer, the guest/character indexer, the year     *)
(*     buckets and the statistics,                                         *)
(*   - the React state of App and every handler that writes it,            *)
(*   - the debounce timer kept in hoverTimeoutRef and the host's timer     *)
(*     queue, with a virtual clock,                                        *)
(*   - the cell-sizing effect with its ResizeObserver and the values its   *)
(*     closure captured.                                                   *)
(* Text is a sequence of one-character strings, so that the regular        *)
(* expressions and toLowerCase act on characters.  Artwork URLs and the    *)
(* week number are presentational and are left out of the records.         *)
(***************************************************************************)
EXTENDS Integers, Sequences, FiniteSets, TLC

VARIABLES
  rawData,           \* useState(CBB_DATA): the raw corpus
  data,              \* useMemo(() => loadData(rawData)), not run before the
                     \* first render
  selectedEntity,    \* name or NullName
  entityType,        \* "guest" | "character"
  hoveredEpisode,    \* episode index or NULL
  pinnedEpisode,     \* episode index or NULL
  sortBy,            \* "appearances" | "first" | "last" | "name"
  cellSize,          \* pixels, scaled by SizeScale
  includeLiveEps,    \* BOOLEAN
  colorMode,         \* "guests" | "characters" | "chars-per-guest"
  searchQuery,       \* text
  hoveredEntity,     \* [name, type] or NullEntity
  hoverTimeoutRef,   \* hoverTimeoutRef.current: a timer id (> 0), or 0 for null
  timers,            \* the host's pending timeouts: records [id, due, idx]
  now,               \* the virtual clock
  mounted,           \* App is mounted
  containerWidth,    \* timelineContainerRef.current.clientWidth
  resizeObserver,    \* the connected observers: records [cellSize, n] (the closure)
  lastHover,         \* history: the last cell hover with no leave since
                     \* [at, idx, n], n the events of its burst; or NoHover, Left
  updates            \* history: the debounced updates applied since that
                     \* hover (or since that leave): records [at, idx]

vars == << rawData, data, selectedEntity, entityType, hoveredEpisode,
           pinnedEpisode, sortBy, cellSize, includeLiveEps, colorMode,
           searchQuery, hoveredEntity, hoverTimeoutRef, timers, now, mounted,
           containerWidth, resizeObserver, lastHover, updates >>

\* null in a numeric slot (an episode index, a timer id's absence is 0, a Date)
NULL == 0 - 1

\* null in a name slot: no text has a character of several letters
NullName == << "null" >>

\* null in the hoveredEntity slot
NullEntity == [ name |-> NullName, type |-> "null" ]

--------------------------------------------------------------------------
(* Text helpers                                                            *)

UpperCase == << "A","B","C","D","E","F","G","H","I","J","K","L","M",
                "N","O","P","Q","R","S","T","U","V","W","X","Y","Z" >>
LowerCase == << "a","b","c","d","e","f","g","h","i","j","k","l","m",
                "n","o","p","q","r","s","t","u","v","w","x","y","z" >>
DigitChars == << "0","1","2","3","4","5","6","7","8","9" >>

Range(s) == { s[i] : i \in DOMAIN s }

DigitSet == Range(DigitChars)

IsDigit(ch) == ch \in DigitSet

\* \w of a JavaScript regular expression: [A-Za-z0-9_]
WordCharSet ==
  Range(UpperCase) \cup Range(LowerCase) \cup Range(DigitChars) \cup {"_"}

IsWordChar(ch) == ch \in WordCharSet

CharToLower(ch) ==
  IF \E i \in DOMAIN UpperCase : UpperCase[i] = ch
    THEN LowerCase[CHOOSE i \in DOMAIN UpperCase : UpperCase[i] = ch]
    ELSE ch

toLowerCase(s) == [ i \in DOMAIN s |-> CharToLower(s[i]) ]

\* String.prototype.includes
includes(s, q) ==
  \E i \in 0..(Len(s) - Len(q)) : \A j \in 1..Len(q) : s[i + j] = q[j]

\* /^[0-9]+(\.[0-9]+)?$/.test(s)
AllDigits(s, lo, hi) == lo <= hi /\ \A i \in lo..hi : IsDigit(s[i])

MatchesNumeric(s) ==
  \/ AllDigits(s, 1, Len(s))
  \/ \E k \in 2..(Len(s) - 1) :
       /\ s[k] = "."
       /\ AllDigits(s, 1, k - 1)
       /\ AllDigits(s, k + 1, Len(s))

\* /\blive\b/i.test(s)
LiveWord == << "l", "i", "v", "e" >>

\* (mutant) the word boundaries are not required
MatchesLiveWordAnywhere(s) ==
  \E i \in 1..(Len(s) - 3) :
    \A j \in 1..4 : CharToLower(s[i + j - 1]) = LiveWord[j]

MatchesLiveWord(s) ==
  \E i \in 1..(Len(s) - 3) :
    /\ \A j \in 1..4 : CharToLower(s[i + j - 1]) = LiveWord[j]
    /\ (i = 1 \/ ~IsWordChar(s[i - 1]))
    /\ (i + 3 = Len(s) \/ ~IsWordChar(s[i + 4]))

\* (mutant) only the title is looked at
isLiveEpisodeTitleOnly(episode) == MatchesLiveWord(episode.title)

\* isLiveEpisode of a processed episode (fields number, title); an absent
\* number is the empty text, which is falsy
isLiveEpisode(episode) ==
  LET num   == episode.number
      title == episode.title
      hasNonNumericNumber == num # << >> /\ ~MatchesNumeric(num)
      hasLiveInTitle      == MatchesLiveWord(title)
  IN  hasNonNumericNumber \/ hasLiveInTitle

--------------------------------------------------------------------------
(* loadData.  A raw corpus is a record [present, episodes, guestCharacters],*)
(* present = FALSE standing for an undefined CBB_DATA; the result has the   *)
(* same flag, FALSE standing for the null loadData returns.                 *)
(* A raw episode is [t, n, d, g, c].  A date text is modelled as <<y, m, d>>*)
(* for the text "y-m-d"; any other value is text the host cannot parse.    *)
(* A Date is the day count (y * 12 + (m - 1)) * 31 + (d - 1).              *)

parseDate(s) ==
  IF Len(s) = 3 /\ s[2] \in 1..12 /\ s[3] \in 1..31
    THEN (s[1] * 12 + (s[2] - 1)) * 31 + (s[3] - 1)
    ELSE NULL

getFullYear(date) == date \div (12 * 31)

\* raw.episodes.map(e => ({title: e.t, number: e.n, date: parseDate(e.d), ...}))
MapRaw(e) ==
  [ title |-> e.t, number |-> e.n, date |-> parseDate(e.d),
    guests |-> e.g, characters |-> e.c ]

\* (mutant) no record is filtered out
FilterDatedKeepsAll(s) == s

\* .filter(e => e.date)
RECURSIVE FilterDated(_)
FilterDated(s) ==
  IF s = << >> THEN << >>
  ELSE IF Head(s).date # NULL THEN << Head(s) >> \o FilterDated(Tail(s))
       ELSE FilterDated(Tail(s))

\* (mutant) a sort that puts an episode before the earlier ones of its date
RECURSIVE SortByDateUnstable(_)
SortByDateUnstable(s) ==
  IF s = << >> THEN << >>
  ELSE LET rest == SortByDateUnstable(SubSeq(s, 1, Len(s) - 1))
           e    == s[Len(s)]
           k    == Cardinality({ i \in DOMAIN rest : rest[i].date < e.date })
       IN  SubSeq(rest, 1, k) \o << e >> \o SubSeq(rest, k + 1, Len(rest))

\* .sort((a, b) => a.date - b.date): Array.prototype.sort is stable
RECURSIVE SortByDate(_)
SortByDate(s) ==
  IF s = << >> THEN << >>
  ELSE LET rest == SortByDate(SubSeq(s, 1, Len(s) - 1))
           e    == s[Len(s)]
           k    == Cardinality({ i \in DOMAIN rest : rest[i].date <= e.date })
       IN  SubSeq(rest, 1, k) \o << e >> \o SubSeq(rest, k + 1, Len(rest))

\* episodes.forEach((ep, idx) => { ep.idx = idx; ep.year = ...; ... }).
\* characters_per_guest is the quotient kept as <<numerator, denominator>>:
\* a zero denominator is the Infinity or NaN the division yields.
Derive(ep, idx) ==
  [ title |-> ep.title, number |-> ep.number, date |-> ep.date,
    guests |-> ep.guests, characters |-> ep.characters,
    idx |-> idx,
    year |-> getFullYear(ep.date),
    num_characters |-> Len(ep.characters),
    num_guests |-> Len(ep.guests),
    characters_per_guest |-> << Len(ep.characters), Len(ep.guests) >> ]

Normalize(raw) ==
  LET mapped == [ i \in DOMAIN raw.episodes |-> MapRaw(raw.episodes[i]) ]
      sorted == SortByDate(FilterDated(mapped))
  IN  [ i \in DOMAIN sorted |-> Derive(sorted[i], i - 1) ]

\* A Map is a sequence of its values in insertion order, keyed by name.
MapHas(map, name) == \E i \in DOMAIN map : map[i].name = name
MapGet(map, name) == map[CHOOSE i \in DOMAIN map : map[i].name = name]
MapKeys(map) == { map[i].name : i \in DOMAIN map }

\* (mutant) only the episode's first guest is added
SetAddAllFirstOnly(set, names) ==
  IF names = << >> \/ Head(names) \in Range(set) THEN set
  ELSE Append(set, Head(names))

\* Set.prototype.add on a Set kept in insertion order
RECURSIVE SetAddAll(_, _)
SetAddAll(set, names) ==
  IF names = << >> THEN set
  ELSE SetAddAll(IF Head(names) \in Range(set) THEN set
                 ELSE Append(set, Head(names)), Tail(names))

\* (mutant) lastIdx is set when the record is created and never after
RECURSIVE AddGuestsKeepsLast(_, _, _)
AddGuestsKeepsLast(map, names, idx) ==
  IF names = << >> THEN map
  ELSE LET g    == Head(names)
           m1   == IF MapHas(map, g) THEN map
                   ELSE Append(map, [ name |-> g, episodes |-> << >>,
                                      firstIdx |-> idx, lastIdx |-> idx ])
           m2   == [ i \in DOMAIN m1 |->
                     IF m1[i].name = g
                       THEN [ m1[i] EXCEPT !.episodes = Append(@, idx) ]
                       ELSE m1[i] ]
       IN  AddGuestsKeepsLast(m2, Tail(names), idx)

\* ep.guests.forEach(g => { if (!guestMap.has(g)) guestMap.set(g, {...});
\*                          gData.episodes.push(idx); gData.lastIdx = idx; })
RECURSIVE AddGuests(_, _, _)
AddGuests(map, names, idx) ==
  IF names = << >> THEN map
  ELSE LET g    == Head(names)
           m1   == IF MapHas(map, g) THEN map
                   ELSE Append(map, [ name |-> g, episodes |-> << >>,
                                      firstIdx |-> idx, lastIdx |-> idx ])
           m2   == [ i \in DOMAIN m1 |->
                     IF m1[i].name = g
                       THEN [ m1[i] EXCEPT !.episodes = Append(@, idx),
                                           !.lastIdx = idx ]
                       ELSE m1[i] ]
       IN  AddGuests(m2, Tail(names), idx)

\* ep.characters.forEach(c => { ...; ep.guests.forEach(g => cData.guests.add(g)); })
RECURSIVE AddCharacters(_, _, _, _)
AddCharacters(map, names, idx, epGuests) ==
  IF names = << >> THEN map
  ELSE LET c    == Head(names)
           m1   == IF MapHas(map, c) THEN map
                   ELSE Append(map, [ name |-> c, episodes |-> << >>,
                                      firstIdx |-> idx, lastIdx |-> idx,
                                      guests |-> << >> ])
           m2   == [ i \in DOMAIN m1 |->
                     IF m1[i].name = c
                       THEN [ m1[i] EXCEPT !.episodes = Append(@, idx),
                                           !.lastIdx = idx,
                                           !.guests = SetAddAll(@, epGuests) ]
                       ELSE m1[i] ]
       IN  AddCharacters(m2, Tail(names), idx, epGuests)

\* episodes.forEach((ep, idx) => {...}) over the first n episodes
RECURSIVE BuildGuestMap(_, _)
BuildGuestMap(episodes, n) ==
  IF n = 0 THEN << >>
  ELSE AddGuests(BuildGuestMap(episodes, n - 1), episodes[n].guests, n - 1)

RECURSIVE BuildCharacterMap(_, _)
BuildCharacterMap(episodes, n) ==
  IF n = 0 THEN << >>
  ELSE AddCharacters(BuildCharacterMap(episodes, n - 1),
                     episodes[n].characters, n - 1, episodes[n].guests)

\* episodesByYear: a Map year -> episodes, here [year, eps] in insertion
\* order with eps the episode indices in push order
RECURSIVE BuildByYear(_, _)
BuildByYear(episodes, n) ==
  IF n = 0 THEN << >>
  ELSE LET prev == BuildByYear(episodes, n - 1)
           y    == episodes[n].year
           m1   == IF \E i \in DOMAIN prev : prev[i].year = y THEN prev
                   ELSE Append(prev, [ year |-> y, eps |-> << >> ])
       IN  [ i \in DOMAIN m1 |->
             IF m1[i].year = y THEN [ m1[i] EXCEPT !.eps = Append(@, n - 1) ]
             ELSE m1[i] ]

\* The decimal text of a natural number
RECURSIVE ToDigits(_)
ToDigits(n) ==
  IF n < 10 THEN << n >> ELSE Append(ToDigits(n \div 10), n % 10)

\* The default comparison of Array.prototype.sort(): by the elements' text
TextLess(a, b) ==
  LET x == ToDigits(a)
      y == ToDigits(b)
  IN  \/ \E k \in 1..Len(x) :
           /\ k <= Len(y)
           /\ \A j \in 1..(k - 1) : x[j] = y[j]
           /\ x[k] < y[k]
      \/ Len(x) < Len(y) /\ \A j \in 1..Len(x) : x[j] = y[j]

\* Array.from(episodesByYear.keys()).sort()
RECURSIVE SortYears(_)
SortYears(s) ==
  IF s = << >> THEN << >>
  ELSE LET rest == SortYears(SubSeq(s, 1, Len(s) - 1))
           e    == s[Len(s)]
           k    == Cardinality({ i \in DOMAIN rest : ~TextLess(e, rest[i]) })
       IN  SubSeq(rest, 1, k) \o << e >> \o SubSeq(rest, k + 1, Len(rest))

Max(a, b) == IF a >= b THEN a ELSE b

SetMax(S) == IF S = {} THEN 0 ELSE CHOOSE x \in S : \A y \in S : y <= x

\* Math.max over quotients kept as <<numerator, denominator>>, denominators > 0
RatioMax(a, b) == IF a[1] * b[2] >= b[1] * a[2] THEN a ELSE b

\* (mutant) episodes without guests contribute their quotient too
RECURSIVE MaxRatioOverAll(_, _)
MaxRatioOverAll(episodes, n) ==
  IF n = 0 THEN << 0, 1 >>
  ELSE RatioMax(MaxRatioOverAll(episodes, n - 1),
                episodes[n].characters_per_guest)

\* if (ep.num_guests > 0) stats.maxCharactersPerGuest = Math.max(...)
RECURSIVE MaxRatioOver(_, _)
MaxRatioOver(episodes, n) ==
  IF n = 0 THEN << 0, 1 >>
  ELSE LET prev == MaxRatioOver(episodes, n - 1)
       IN  IF episodes[n].num_guests > 0
             THEN RatioMax(prev, episodes[n].characters_per_guest)
             ELSE prev

ComputeStats(episodes, episodesByYear) ==
  [ maxEpisodesWithLive |->
      SetMax({ Len(episodesByYear[i].eps) : i \in DOMAIN episodesByYear }),
    maxEpisodesWithoutLive |->
      SetMax({ Cardinality({ j \in DOMAIN episodesByYear[i].eps :
                             ~isLiveEpisode(episodes[episodesByYear[i].eps[j] + 1]) })
               : i \in DOMAIN episodesByYear }),
    maxGuests |-> SetMax({ episodes[i].num_guests : i \in DOMAIN episodes }),
    maxCharacters |-> SetMax({ episodes[i].num_characters : i \in DOMAIN episodes }),
    maxCharactersPerGuest |-> MaxRatioOver(episodes, Len(episodes)) ]

\* What is left of the data when loadData throws: raw.episodes.map(...) on
\* a raw corpus without an episodes property is a TypeError
TypeError == [ present |-> FALSE, error |-> "TypeError" ]

Threw(d) == "error" \in DOMAIN d

\* (mutant) the raw episode list filtered in place
rawAfterLoadFiltersRaw(raw) ==
  IF raw.present /\ "episodes" \in DOMAIN raw
    THEN [ raw EXCEPT !.episodes = SelectSeq(@, LAMBDA e : parseDate(e.d) # NULL) ]
    ELSE raw

\* The raw corpus after loadData has run on it.  map and filter build new
\* arrays of new records; sort and the forEach passes write to those, and
\* the maps are new: nothing is written to raw.
rawAfterLoad(raw) == raw

loadData(raw) ==
  IF ~raw.present THEN [ present |-> FALSE ]
  ELSE IF "episodes" \notin DOMAIN raw THEN TypeError
  ELSE LET episodes       == Normalize(raw)
           episodesByYear == BuildByYear(episodes, Len(episodes))
       IN  [ present         |-> TRUE,
             episodes        |-> episodes,
             guestMap        |-> BuildGuestMap(episodes, Len(episodes)),
             characterMap    |-> BuildCharacterMap(episodes, Len(episodes)),
             guestCharacters |-> raw.guestCharacters,
             episodesByYear  |-> episodesByYear,
             years           |-> SortYears([ i \in DOMAIN episodesByYear |->
                                             episodesByYear[i].year ]),
             stats           |-> ComputeStats(episodes, episodesByYear) ]

--------------------------------------------------------------------------
(* The corpus the interaction specifications load.  In date order:         *)
(*   0  "E1"    #1    2010-01-01  guests Al      characters Cy             *)
(*   1  "Live"  #2    2010-02-01  guests -       characters Di     (live)  *)
(*   2  "E3"    #3    2010-03-01  guests Bo      characters Di, Bo         *)
(*   3  "E4"    #4.5  2011-01-01  guests Al, Bo  characters Cy             *)
(* and one record whose date does not parse.                               *)

Al == << "A", "l" >>
Bo == << "B", "o" >>
Cy == << "C", "y" >>
Di == << "D", "i" >>
Zed == << "Z", "e", "d" >>

Corpus ==
  [ present |-> TRUE,
    episodes |-> <<
      [ t |-> << "E", "3" >>, n |-> << "3" >>, d |-> << 2010, 3, 1 >>,
        g |-> << Bo >>, c |-> << Di, Bo >> ],
      [ t |-> << "E", "1" >>, n |-> << "1" >>, d |-> << 2010, 1, 1 >>,
        g |-> << Al >>, c |-> << Cy >> ],
      [ t |-> << "B", "a", "d" >>, n |-> << "9" >>, d |-> << >>,
        g |-> << Al >>, c |-> << >> ],
      [ t |-> << "L", "i", "v", "e" >>, n |-> << "2" >>, d |-> << 2010, 2, 1 >>,
        g |-> << >>, c |-> << Di >> ],
      [ t |-> << "E", "4" >>, n |-> << "4", ".", "5" >>, d |-> << 2011, 1, 1 >>,
        g |-> << Al, Bo >>, c |-> << Cy >> ] >>,
    guestCharacters |-> [ x \in { Al, Bo } |->
                          IF x = Al THEN << Cy, Zed >> ELSE << Di >> ] ]

\* A corpus whose only episode is live, and a corpus of one studio episode
LiveOnlyCorpus ==
  [ present |-> TRUE,
    episodes |-> <<
      [ t |-> << "L", "i", "v", "e" >>, n |-> << "7" >>, d |-> << 2012, 5, 1 >>,
        g |-> << Al >>, c |-> << >> ] >>,
    guestCharacters |-> [ x \in {} |-> << >> ] ]

SoloCorpus ==
  [ present |-> TRUE,
    episodes |-> <<
      [ t |-> << "E", "1" >>, n |-> << "1" >>, d |-> << 2010, 1, 1 >>,
        g |-> << Al >>, c |-> << Cy >> ] >>,
    guestCharacters |-> [ x \in { Al } |-> << Cy >> ] ]

\* The corpora the sizing specification loads: their row cardinalities
\* (without live, with live) are (2, 3), (0, 1) and (1, 1)
SizingCorpora == { Corpus, LiveOnlyCorpus, SoloCorpus }

\* The raw records the loading specification builds its corpora from: two
\* of one date, one without guests and live by its title, one live by its
\* number, one whose date does not parse, one that lists a guest twice and
\* one that lists a character twice
RawRecords ==
  { [ t |-> << "A" >>, n |-> << "1" >>, d |-> << 2010, 1, 1 >>,
      g |-> << Al >>, c |-> << Cy >> ],
    [ t |-> << "B" >>, n |-> << "2" >>, d |-> << 2010, 1, 1 >>,
      g |-> << Bo, Zed >>, c |-> << Cy, Di >> ],
    [ t |-> << "L", "i", "v", "e" >>, n |-> << "3" >>, d |-> << 2011, 1, 1 >>,
      g |-> << >>, c |-> << Di >> ],
    [ t |-> << "C" >>, n |-> << "x" >>, d |-> << 2009, 6, 15 >>,
      g |-> << Al, Bo >>, c |-> << >> ],
    [ t |-> << "D" >>, n |-> << "5" >>, d |-> << >>,
      g |-> << Bo >>, c |-> << Di >> ],
    [ t |-> << "E" >>, n |-> << "6" >>, d |-> << 2011, 3, 1 >>,
      g |-> << Al, Al >>, c |-> << Cy >> ],
    [ t |-> << "F" >>, n |-> << "7" >>, d |-> << 2010, 2, 1 >>,
      g |-> << Bo >>, c |-> << Di, Di >> ],
    [ t |-> << "G" >>, n |-> << "8" >>, d |-> << 999, 12, 31 >>,
      g |-> << >>, c |-> << >> ],
    [ t |-> << "H" >>, n |-> << "9" >>, d |-> << 2011, 5, 1 >>,
      g |-> << >>, c |-> << Cy >> ] }

\* The longest corpus built from them
MaxEpisodes == 3

\* Numbers and titles of the kind the episode list carries
NumberBO2013 ==
  << "B", "O", "2", "0", "1", "3", ".", "1" >>

Number145 ==
  << "1", "4", "5" >>

TitleBestOf ==
  << "T", "h", "e", " ", "B", "e", "s", "t", " ", "o", "f", " ", "C", "B",
     "B" >>

TitleLiveFromAustin ==
  << "L", "i", "v", "e", " ", "f", "r", "o", "m", " ", "A", "u", "s", "t",
     "i", "n" >>

TitleAlwaysLiveHere ==
  << "I", "'", "l", "l", " ", "A", "l", "w", "a", "y", "s", " ", "L", "i",
     "v", "e", " ", "H", "e", "r", "e" >>

\* Character names in mixed letter case
bea == << "b", "e", "a" >>
Abe == << "A", "b", "e" >>

\* Guest Al in episodes 0 and 2, guest Bo in episode 1
QueryCorpus ==
  [ present |-> TRUE,
    episodes |-> <<
      [ t |-> << "Q", "1" >>, n |-> << "1" >>, d |-> << 2010, 1, 1 >>,
        g |-> << Al >>, c |-> << bea >> ],
      [ t |-> << "Q", "2" >>, n |-> << "2" >>, d |-> << 2010, 2, 1 >>,
        g |-> << Bo >>, c |-> << Cy, Abe >> ],
      [ t |-> << "Q", "3" >>, n |-> << "3" >>, d |-> << 2010, 3, 1 >>,
        g |-> << Al >>, c |-> << Cy >> ] >>,
    guestCharacters |-> [ x \in {} |-> << >> ] ]

QueryCorpora == { Corpus, QueryCorpus }

\* What the query specification types into the search box
QueryTexts ==
  { << >>, << "b" >>, << "B" >>, << "B", "E" >>, << "l" >>, << "z" >> }

\* Episode numbers and titles that exercise the live classification
LiveNumbers ==
  { << >>, << "7" >>, << "7", ".", "5" >>, << "7", "." >>, << ".", "5" >>,
    << "B", "O", "2" >>, NumberBO2013, Number145 }

LiveTitles ==
  { << "E" >>, << "L", "i", "v", "e" >>, << "a", "l", "i", "v", "e" >>,
    << "l", "i", "v", "e", "n" >>, << "g", "o", " ", "L", "I", "V", "E", "!" >>,
    << "d", "e", "l", "i", "v", "e", "r" >>,
    TitleBestOf, TitleLiveFromAustin, TitleAlwaysLiveHere }

\* CBB_DATA undefined, and CBB_DATA without an episodes property
MissingCorpora ==
  { [ present |-> FALSE ],
    [ present |-> TRUE, guestCharacters |-> [ x \in {} |-> << >> ] ] }

\* CBB_DATA as the loading specification draws it
Corpora ==
  MissingCorpora \cup
  { [ present |-> TRUE, episodes |-> eps,
      guestCharacters |-> [ x \in { Al } |-> << Cy >> ] ] :
      eps \in UNION { [ 1..k -> RawRecords ] : k \in 0..MaxEpisodes } }
  \cup
  { [ present |-> TRUE,
      episodes |-> << [ t |-> title, n |-> num, d |-> << 2010, 1, 1 >>,
                        g |-> << Al >>, c |-> << >> ] >>,
      guestCharacters |-> [ x \in {} |-> << >> ] ] :
      num \in LiveNumbers, title \in LiveTitles }

\* What the user may type into the search box
Queries == { << >>, << "b" >> }

\* Widths the timeline container may be measured at
Widths == { 0, 109, 125, 126 }

EntityTypes == { "guest", "character" }
SortKeys == { "appearances", "last", "first", "name" }
ColorModes == { "guests", "characters", "chars-per-guest" }

--------------------------------------------------------------------------
(* App: values derived in the render                                       *)

episodes == data.episodes
guestMap == data.guestMap
characterMap == data.characterMap

\* (mutant) the two maxima taken for each other
RowCardinalitySwapped(d, live) ==
  IF ~d.present THEN 0
  ELSE IF live THEN d.stats.maxEpisodesWithoutLive
  ELSE d.stats.maxEpisodesWithLive

\* includeLiveEps ? data?.stats?.maxEpisodesWithLive || 0 : ...WithoutLive || 0
RowCardinality(d, live) ==
  IF ~d.present THEN 0
  ELSE IF live THEN d.stats.maxEpisodesWithLive
  ELSE d.stats.maxEpisodesWithoutLive

maxEpisodesInYear == RowCardinality(data, includeLiveEps)

\* Cell sizes are rationals; they are kept as integers scaled by SizeScale,
\* a multiple of both row cardinalities and of ten (so 0.1 px is exact).
SizeScale ==
  10 * Max(1, RowCardinality(data, TRUE)) * Max(1, RowCardinality(data, FALSE))

Abs(x) == IF x < 0 THEN 0 - x ELSE x

\* (mutant) the size rounded down to whole pixels
computeSizeFloored(width, n) ==
  LET padding        == 32
      yearLabelWidth == 40
      countLabelWidth == 30
      gap            == 1
      availableWidth == width - padding - yearLabelWidth - countLabelWidth
  IN  ((availableWidth - (n - 1) * gap) \div n) * SizeScale

\* updateCellSize: const size = (availableWidth - (n - 1) * gap) / n
computeSize(width, n) ==
  LET padding        == 32
      yearLabelWidth == 40
      countLabelWidth == 30
      gap            == 1
      availableWidth == width - padding - yearLabelWidth - countLabelWidth
  IN  ((availableWidth - (n - 1) * gap) * SizeScale) \div n

\* (mutant) updateCellSize without the 4 px floor
updateCellSizeNoFloor(captured, n, width, current) ==
  IF width = 0 THEN current
  ELSE LET size == computeSize(width, n)
       IN  IF 10 * Abs(size - captured) > SizeScale THEN size ELSE current

\* updateCellSize: the cell size after one run of the closure that captured
\* the cell size `captured` and the row cardinality n, with `current` stored
updateCellSize(captured, n, width, current) ==
  IF width = 0 THEN current
  ELSE LET size == computeSize(width, n)
       IN  IF size >= 4 * SizeScale /\ 10 * Abs(size - captured) > SizeScale
             THEN size
             ELSE current

\* The sizing effect's body, run in a render whose cellSize is `captured`:
\* the observers it leaves connected and the cell size it leaves stored
EffectObservers(n, captured) ==
  IF ~data.present \/ n = 0 THEN {}
  ELSE { [ cellSize |-> captured, n |-> n ] }

EffectCellSize(n, captured, width) ==
  IF ~data.present \/ n = 0 THEN captured
  ELSE updateCellSize(captured, n, width, captured)

\* Timeline: the cells the rows show (filteredYearEps, over all years)
IsVisibleCell(i) ==
  /\ i \in 0..(Len(episodes) - 1)
  /\ includeLiveEps \/ ~isLiveEpisode(episodes[i + 1])

VisibleCells == { i \in 0..(Len(episodes) - 1) : IsVisibleCell(i) }

\* Cell colors.  A color is [name, lightness]: the two fixed colors by name,
\* a base color "hsl(210, 50%, L%)" by its lightness L, kept as the quotient
\* <<numerator, denominator>>; << 0 - 1, 0 >> is -Infinity and << 0, 0 >> NaN.
EPISODE_LIVE_COLOR == [ name |-> "#EE6C4D", lightness |-> << 0, 1 >> ]
EPISODE_HIGHLIGHT_COLOR == [ name |-> "hsl(45, 100%, 51%)", lightness |-> << 0, 1 >> ]
ENTITY_HOVER_COLOR == [ name |-> "hsl(45, 100%, 51%)", lightness |-> << 0, 1 >> ]

\* Two colors are the same text
SameColor(a, b) ==
  /\ a.name = b.name
  /\ IF a.lightness[2] = 0 \/ b.lightness[2] = 0
       THEN a.lightness = b.lightness
       ELSE a.lightness[1] * b.lightness[2] = b.lightness[1] * a.lightness[2]

\* (mutant) a count that is not a finite number is colored as 0
getEpisodeBaseColorNoDataAsZero(guestCount, maxGuests) ==
  IF maxGuests[1] = 0 THEN [ name |-> "hsl(210, 50%, L%)", lightness |-> << 60, 1 >> ]
  ELSE IF guestCount[2] = 0
    THEN [ name |-> "hsl(210, 50%, L%)", lightness |-> << 85, 1 >> ]
  ELSE [ name |-> "hsl(210, 50%, L%)",
         lightness |-> << 85 * guestCount[2] * maxGuests[1]
                            - 40 * guestCount[1] * maxGuests[2],
                          guestCount[2] * maxGuests[1] >> ]

\* getEpisodeBaseColor on quotients <<numerator, denominator>>; the
\* maximum's denominator is positive.  x / 0 is Infinity for x > 0 and NaN
\* for x = 0, and 85 - ratio * 40 is then -Infinity or NaN.
getEpisodeBaseColor(guestCount, maxGuests) ==
  IF maxGuests[1] = 0 THEN [ name |-> "hsl(210, 50%, L%)", lightness |-> << 60, 1 >> ]
  ELSE IF guestCount[2] = 0
    THEN [ name |-> "hsl(210, 50%, L%)",
           lightness |-> IF guestCount[1] = 0 THEN << 0, 0 >> ELSE << 0 - 1, 0 >> ]
  ELSE [ name |-> "hsl(210, 50%, L%)",
         lightness |-> << 85 * guestCount[2] * maxGuests[1]
                            - 40 * guestCount[1] * maxGuests[2],
                          guestCount[2] * maxGuests[1] >> ]

\* episodeHasEntity
episodeHasEntity(ep) ==
  IF selectedEntity = NullName \/ selectedEntity = << >> THEN FALSE
  ELSE IF entityType = "guest" THEN selectedEntity \in Range(ep.guests)
  ELSE selectedEntity \in Range(ep.characters)

\* Timeline: the background color of an episode's cell
bgColor(ep) ==
  LET hasHighlight     == episodeHasEntity(ep)
      hasHoveredEntity ==
        /\ hoveredEntity # NullEntity
        /\ \/ hoveredEntity.type = "guest"
                /\ hoveredEntity.name \in Range(ep.guests)
           \/ hoveredEntity.type = "character"
                /\ hoveredEntity.name \in Range(ep.characters)
  IN  IF hasHoveredEntity THEN ENTITY_HOVER_COLOR
      ELSE IF hasHighlight THEN EPISODE_HIGHLIGHT_COLOR
      ELSE IF isLiveEpisode(ep) THEN EPISODE_LIVE_COLOR
      ELSE CASE colorMode = "characters" ->
                  getEpisodeBaseColor(<< ep.num_characters, 1 >>,
                                      << data.stats.maxCharacters, 1 >>)
             [] colorMode = "chars-per-guest" ->
                  getEpisodeBaseColor(ep.characters_per_guest,
                                      data.stats.maxCharactersPerGuest)
             [] OTHER ->
                  getEpisodeBaseColor(<< ep.num_guests, 1 >>,
                                      << data.stats.maxGuests, 1 >>)

\* Timeline: the episodes of a year's row, as indices
filteredYearEps(year) ==
  LET yearEps == IF \E b \in DOMAIN data.episodesByYear :
                      data.episodesByYear[b].year = year
                   THEN data.episodesByYear[
                          CHOOSE b \in DOMAIN data.episodesByYear :
                            data.episodesByYear[b].year = year ].eps
                   ELSE << >>
  IN  IF includeLiveEps THEN yearEps
      ELSE SelectSeq(yearEps, LAMBDA i : ~isLiveEpisode(episodes[i + 1]))

\* (mutant) the hovered episode shown in preference to the pinned one
displayEpisodeIdxHoverFirst ==
  IF hoveredEpisode # NULL THEN hoveredEpisode ELSE pinnedEpisode

\* EpisodeSummary: pinned takes priority over hovered
displayEpisodeIdx ==
  IF pinnedEpisode # NULL THEN pinnedEpisode ELSE hoveredEpisode

\* sortedEntities before its sort: the entities the search keeps
entityLookup == IF entityType = "guest" THEN guestMap ELSE characterMap

RECURSIVE FilterByQuery(_, _)
FilterByQuery(entities, q) ==
  IF entities = << >> THEN << >>
  ELSE IF includes(toLowerCase(Head(entities).name), q)
         THEN << Head(entities) >> \o FilterByQuery(Tail(entities), q)
         ELSE FilterByQuery(Tail(entities), q)

FilteredEntities ==
  IF searchQuery # << >>
    THEN FilterByQuery(entityLookup, toLowerCase(searchQuery))
    ELSE entityLookup

\* String.prototype.localeCompare on names made of letters: letters compare
\* without regard to case first; names equal up to case put the lowercase
\* letter first at the first place they differ
LetterRank(ch) ==
  LET lc == CharToLower(ch)
  IN  IF \E i \in DOMAIN LowerCase : LowerCase[i] = lc
        THEN CHOOSE i \in DOMAIN LowerCase : LowerCase[i] = lc
        ELSE 0

LexLess(x, y) ==
  \E k \in 1..Len(y) :
    /\ k - 1 <= Len(x)
    /\ \A j \in 1..(k - 1) : x[j] = y[j]
    /\ (k > Len(x) \/ x[k] < y[k])

localeCompare(a, b) ==
  LET ra == [ i \in DOMAIN a |-> LetterRank(a[i]) ]
      rb == [ i \in DOMAIN b |-> LetterRank(b[i]) ]
      ca == [ i \in DOMAIN a |-> IF a[i] = CharToLower(a[i]) THEN 0 ELSE 1 ]
      cb == [ i \in DOMAIN b |-> IF b[i] = CharToLower(b[i]) THEN 0 ELSE 1 ]
  IN  IF LexLess(ra, rb) THEN 0 - 1
      ELSE IF LexLess(rb, ra) THEN 1
      ELSE IF LexLess(ca, cb) THEN 0 - 1
      ELSE IF LexLess(cb, ca) THEN 1
      ELSE 0

\* (mutant) every sort mode ascending
entityCompareAscending(key, a, b) ==
  CASE key = "appearances" -> Len(a.episodes) - Len(b.episodes)
    [] key = "first"       -> a.firstIdx - b.firstIdx
    [] key = "last"        -> a.lastIdx - b.lastIdx
    [] key = "name"        -> localeCompare(a.name, b.name)
    [] OTHER               -> 0

\* The comparators of the switch (sortBy)
entityCompare(key, a, b) ==
  CASE key = "appearances" -> Len(b.episodes) - Len(a.episodes)
    [] key = "first"       -> a.firstIdx - b.firstIdx
    [] key = "last"        -> b.lastIdx - a.lastIdx
    [] key = "name"        -> localeCompare(a.name, b.name)
    [] OTHER               -> 0

\* entities.sort(comparator): Array.prototype.sort is stable
RECURSIVE SortEntities(_, _)
SortEntities(entities, key) ==
  IF entities = << >> THEN << >>
  ELSE LET rest == SortEntities(SubSeq(entities, 1, Len(entities) - 1), key)
           e    == entities[Len(entities)]
           k    == Cardinality({ i \in DOMAIN rest :
                                 entityCompare(key, rest[i], e) <= 0 })
       IN  SubSeq(rest, 1, k) \o << e >> \o SubSeq(rest, k + 1, Len(rest))

sortedEntities == SortEntities(FilteredEntities, sortBy)

\* EntityDetail renders its cards and related chips only for a selected
\* entity that the current lookup map holds
DetailVisible ==
  selectedEntity # NullName /\ selectedEntity # << >>
    /\ MapHas(entityLookup, selectedEntity)

\* related.sort((a, b) => b.count - a.count), stable
RECURSIVE SortByCountDesc(_)
SortByCountDesc(s) ==
  IF s = << >> THEN << >>
  ELSE LET rest == SortByCountDesc(SubSeq(s, 1, Len(s) - 1))
           e    == s[Len(s)]
           k    == Cardinality({ i \in DOMAIN rest : rest[i].count >= e.count })
       IN  SubSeq(rest, 1, k) \o << e >> \o SubSeq(rest, k + 1, Len(rest))

\* (mutant) related characters taken without looking them up
RECURSIVE RelatedCharactersUnchecked(_)
RelatedCharactersUnchecked(names) ==
  IF names = << >> THEN << >>
  ELSE << [ name |-> Head(names), count |-> 0, type |-> "character" ] >>
         \o RelatedCharactersUnchecked(Tail(names))

\* guestCharacters[selectedEntity].forEach(c => { if (charData) related.push(...) })
RECURSIVE RelatedCharacters(_)
RelatedCharacters(names) ==
  IF names = << >> THEN << >>
  ELSE LET c == Head(names)
       IN  (IF MapHas(characterMap, c)
              THEN << [ name |-> c, count |-> Len(MapGet(characterMap, c).episodes),
                        type |-> "character" ] >>
              ELSE << >>) \o RelatedCharacters(Tail(names))

RelatedGuests(names) ==
  [ i \in DOMAIN names |->
    [ name |-> names[i],
      count |-> IF MapHas(guestMap, names[i])
                  THEN Len(MapGet(guestMap, names[i]).episodes) ELSE 0,
      type |-> "guest" ] ]

\* EntityDetail: related.slice(0, 6); nothing is rendered without a selected
\* entity of the current lookup map
Related ==
  IF ~DetailVisible THEN << >> ELSE
  LET all == IF entityType = "guest"
               THEN IF selectedEntity \in DOMAIN data.guestCharacters
                      THEN RelatedCharacters(data.guestCharacters[selectedEntity])
                      ELSE << >>
               ELSE RelatedGuests(MapGet(entityLookup, selectedEntity).guests)
      sorted == SortByCountDesc(all)
  IN  SubSeq(sorted, 1, IF Len(sorted) < 6 THEN Len(sorted) ELSE 6)

--------------------------------------------------------------------------
(* Clicks.  Every click bubbles to the root element, whose onClick is      *)
(* handleBackgroundClick; the target's own handler and the root's run in   *)
(* the same event with the pinnedEpisode of the last render, and React     *)
(* applies their queued setPinnedEpisode calls in order (the last wins).   *)
(* A click target lies in one of three regions: "cell" (inside a           *)
(* data-timeline-cell element), "summary" (inside the data-episode-summary *)
(* element) or "other".                                                    *)

Regions == { "cell", "summary", "other" }

\* (mutant) the handler without its timeline-cell check
handleBackgroundClickNoCellCheck(region, queued) ==
  IF pinnedEpisode = NULL THEN queued
  ELSE IF region = "summary" THEN queued
  ELSE NULL

\* (mutant) the handler without its episode-summary check
handleBackgroundClickNoSummaryCheck(region, queued) ==
  IF pinnedEpisode = NULL THEN queued
  ELSE IF region = "cell" THEN queued
  ELSE NULL

\* handleBackgroundClick: pinnedEpisode after the event, `queued` being the
\* value the target's handler queued (pinnedEpisode itself when it set none)
handleBackgroundClick(region, queued) ==
  IF pinnedEpisode = NULL THEN queued
  ELSE IF region = "summary" THEN queued
  ELSE IF region = "cell" THEN queued
  ELSE NULL

\* setPinnedEpisode(pinnedEpisode === idx ? null : idx)
TogglePin(idx) == IF pinnedEpisode = idx THEN NULL ELSE idx

\* (mutant) a list row that selects without toggling
ListSelectionNoToggle(name) == name

\* EntityListItems: onSelect(isSelected ? null : entity.name)
ListSelection(name) == IF selectedEntity = name THEN NullName ELSE name

\* EpisodeSummary and EntityDetail chips: setSelectedEntity(name)
ChipSelection(name) == name

Interactive == mounted /\ data.present

UnchangedHost ==
  UNCHANGED << now, timers, hoverTimeoutRef, lastHover, updates, mounted,
               containerWidth, resizeObserver, rawData, data >>

UnchangedView ==
  UNCHANGED << sortBy, cellSize, includeLiveEps, colorMode >>

\* Timeline cell onClick
CellClick(i) ==
  /\ Interactive
  /\ UnchangedView /\ UnchangedHost
  /\ UNCHANGED << selectedEntity, entityType, hoveredEpisode, searchQuery,
                  hoveredEntity >>
  /\ IsVisibleCell(i)
  /\ pinnedEpisode' = handleBackgroundClick("cell", TogglePin(i))

\* EpisodeSummary: the unpin button, rendered while pinned
UnpinClick ==
  /\ Interactive
  /\ UnchangedView /\ UnchangedHost
  /\ UNCHANGED << selectedEntity, entityType, hoveredEpisode, searchQuery,
                  hoveredEntity >>
  /\ pinnedEpisode # NULL
  /\ pinnedEpisode' = handleBackgroundClick("summary", NULL)

\* The names on the chips of the displayed episode, per kind
SummaryChips(kind) ==
  IF displayEpisodeIdx = NULL THEN {}
  ELSE IF kind = "guest" THEN Range(episodes[displayEpisodeIdx + 1].guests)
  ELSE Range(episodes[displayEpisodeIdx + 1].characters)

\* EpisodeSummary: guest or character chip onClick
ChipClick(kind, name) ==
  /\ Interactive
  /\ UnchangedView /\ UnchangedHost
  /\ UNCHANGED << hoveredEpisode, searchQuery, hoveredEntity >>
  /\ name \in SummaryChips(kind)
  /\ entityType' = kind
  /\ selectedEntity' = ChipSelection(name)
  /\ pinnedEpisode' = handleBackgroundClick("summary", pinnedEpisode)

\* EpisodeSummary: chip onMouseEnter
ChipEnter(kind, name) ==
  /\ Interactive
  /\ UnchangedView /\ UnchangedHost
  /\ UNCHANGED << selectedEntity, entityType, hoveredEpisode, pinnedEpisode,
                  searchQuery >>
  /\ name \in SummaryChips(kind)
  /\ hoveredEntity' = [ name |-> name, type |-> kind ]

\* EpisodeSummary: onMouseLeave of a chip container
ChipLeave ==
  /\ Interactive
  /\ UnchangedView /\ UnchangedHost
  /\ UNCHANGED << selectedEntity, entityType, hoveredEpisode, pinnedEpisode,
                  searchQuery >>
  /\ displayEpisodeIdx # NULL
  /\ hoveredEntity' = NullEntity

\* The names the entity list shows: sortedEntities.slice(0, 100)
ListedNames ==
  { FilteredEntities[i].name :
      i \in 1..(IF Len(FilteredEntities) < 100 THEN Len(FilteredEntities) ELSE 100) }

\* EntityListItems row onClick
ListClick(name) ==
  /\ Interactive
  /\ UnchangedView /\ UnchangedHost
  /\ UNCHANGED << entityType, hoveredEpisode, searchQuery, hoveredEntity >>
  /\ selectedEntity' = ListSelection(name)
  /\ pinnedEpisode' = handleBackgroundClick("other", pinnedEpisode)
  /\ name \in ListedNames

\* (mutant) a row hover that also selects the entity
ListEnterSelects(name) ==
  /\ Interactive
  /\ UnchangedView /\ UnchangedHost
  /\ UNCHANGED << entityType, hoveredEpisode, pinnedEpisode, searchQuery >>
  /\ hoveredEntity' = [ name |-> name, type |-> entityType ]
  /\ selectedEntity' = name
  /\ name \in ListedNames

\* EntityListItems row onMouseEnter
ListEnter(name) ==
  /\ Interactive
  /\ UnchangedView /\ UnchangedHost
  /\ UNCHANGED << selectedEntity, entityType, hoveredEpisode, pinnedEpisode,
                  searchQuery >>
  /\ hoveredEntity' = [ name |-> name, type |-> entityType ]
  /\ name \in ListedNames

\* The list's scroll container onMouseLeave
ListLeave ==
  /\ Interactive
  /\ UnchangedView /\ UnchangedHost
  /\ UNCHANGED << selectedEntity, entityType, hoveredEpisode, pinnedEpisode,
                  searchQuery >>
  /\ hoveredEntity' = NullEntity

\* EntityDetail: related chip onClick
RelatedClick(r) ==
  /\ Interactive
  /\ UnchangedView /\ UnchangedHost
  /\ UNCHANGED << hoveredEpisode, searchQuery, hoveredEntity >>
  /\ DetailVisible
  /\ r \in Range(Related)
  /\ entityType' = r.type
  /\ selectedEntity' = ChipSelection(r.name)
  /\ pinnedEpisode' = handleBackgroundClick("other", pinnedEpisode)

\* EntityDetail: related chip onMouseEnter
RelatedEnter(r) ==
  /\ Interactive
  /\ UnchangedView /\ UnchangedHost
  /\ UNCHANGED << selectedEntity, entityType, hoveredEpisode, pinnedEpisode,
                  searchQuery >>
  /\ DetailVisible
  /\ r \in Range(Related)
  /\ hoveredEntity' = [ name |-> r.name, type |-> r.type ]

\* EntityDetail: onMouseLeave of the related chips' container
RelatedLeave ==
  /\ Interactive
  /\ UnchangedView /\ UnchangedHost
  /\ UNCHANGED << selectedEntity, entityType, hoveredEpisode, pinnedEpisode,
                  searchQuery >>
  /\ DetailVisible
  /\ Related # << >>
  /\ hoveredEntity' = NullEntity

\* EntityDetail: the First (entity.firstIdx) and Latest (entity.lastIdx) cards
CardIndex(which) ==
  IF which = "first" THEN MapGet(entityLookup, selectedEntity).firstIdx
  ELSE MapGet(entityLookup, selectedEntity).lastIdx

Cards == { "first", "latest" }

CardEnter(which) ==
  /\ Interactive
  /\ UnchangedView /\ UnchangedHost
  /\ UNCHANGED << selectedEntity, entityType, pinnedEpisode, searchQuery,
                  hoveredEntity >>
  /\ DetailVisible
  /\ hoveredEpisode' = CardIndex(which)

CardLeave ==
  /\ Interactive
  /\ UnchangedView /\ UnchangedHost
  /\ UNCHANGED << selectedEntity, entityType, pinnedEpisode, searchQuery,
                  hoveredEntity >>
  /\ DetailVisible
  /\ hoveredEpisode' = NULL

CardClick(which) ==
  /\ Interactive
  /\ UnchangedView /\ UnchangedHost
  /\ UNCHANGED << selectedEntity, entityType, hoveredEpisode, searchQuery,
                  hoveredEntity >>
  /\ DetailVisible
  /\ pinnedEpisode' = handleBackgroundClick("other", TogglePin(CardIndex(which)))

\* (mutant) a tab switch that keeps the selection
TabClickKeepsSelection(t) ==
  /\ Interactive
  /\ UnchangedView /\ UnchangedHost
  /\ UNCHANGED << selectedEntity, hoveredEpisode, hoveredEntity >>
  /\ entityType' = t
  /\ searchQuery' = << >>
  /\ pinnedEpisode' = handleBackgroundClick("other", pinnedEpisode)

\* The guest/character tab onClick
TabClick(t) ==
  /\ Interactive
  /\ UnchangedView /\ UnchangedHost
  /\ UNCHANGED << hoveredEpisode, hoveredEntity >>
  /\ entityType' = t
  /\ selectedEntity' = NullName
  /\ searchQuery' = << >>
  /\ pinnedEpisode' = handleBackgroundClick("other", pinnedEpisode)

\* The search input onChange
SetSearch(q) ==
  /\ Interactive
  /\ UnchangedView /\ UnchangedHost
  /\ UNCHANGED << selectedEntity, entityType, hoveredEpisode, pinnedEpisode,
                  hoveredEntity >>
  /\ searchQuery' = q

\* (mutant) a sort that reorders the index maps themselves
SetSortSortsIndex(k) ==
  /\ Interactive
  /\ sortBy' = k
  /\ pinnedEpisode' = handleBackgroundClick("other", pinnedEpisode)
  /\ UNCHANGED << selectedEntity, entityType, hoveredEpisode, searchQuery,
                  hoveredEntity, cellSize, includeLiveEps, colorMode >>
  /\ UNCHANGED << now, timers, hoverTimeoutRef, lastHover, updates, mounted,
                  containerWidth, resizeObserver, rawData >>
  /\ data' = [ data EXCEPT !.guestMap = SortEntities(@, k),
                           !.characterMap = SortEntities(@, k) ]

\* A sort button onClick
SetSort(k) ==
  /\ Interactive
  /\ sortBy' = k
  /\ pinnedEpisode' = handleBackgroundClick("other", pinnedEpisode)
  /\ UNCHANGED << selectedEntity, entityType, hoveredEpisode, searchQuery,
                  hoveredEntity, cellSize, includeLiveEps, colorMode >>
  /\ UnchangedHost

\* The color mode select onChange
SetColorMode(m) ==
  /\ Interactive
  /\ colorMode' = m
  /\ UNCHANGED << selectedEntity, entityType, hoveredEpisode, pinnedEpisode,
                  searchQuery, hoveredEntity, sortBy, cellSize, includeLiveEps >>
  /\ UnchangedHost

\* A click on an element that has no handler of its own, in the summary
\* (the title, the date) or elsewhere (the header, a label, the legend)
InertClick(region) ==
  /\ Interactive
  /\ UnchangedView /\ UnchangedHost
  /\ UNCHANGED << selectedEntity, entityType, hoveredEpisode, searchQuery,
                  hoveredEntity >>
  /\ region \in { "summary", "other" }
  /\ pinnedEpisode' = handleBackgroundClick(region, pinnedEpisode)

--------------------------------------------------------------------------
(* The debounced episode hover.  The host keeps the pending timeouts; a    *)
(* timeout is [id, due, idx]: its handle, the clock value at which its     *)
(* callback runs, and the idx its callback passes to setHoveredEpisode.    *)
(* The host never hands out a handle that is pending or that the program   *)
(* still holds; handles nobody holds are interchangeable, so the smallest  *)
(* free one is taken.                                                      *)

\* setTimeout(..., 50)
HoverDelay == 50

\* The horizon of the virtual clock and the length of one clock step
MaxTime == 80
TickLen == 10

\* The hover events counted in one burst (the count saturates)
BurstCap == 4

\* lastHover before any cell hover, and after a row leave with no hover since
NoHover == [ at |-> NULL, idx |-> NULL, n |-> 0 ]
Left == [ at |-> NULL, idx |-> NULL, n |-> NULL ]

FreshTimerId ==
  CHOOSE id \in 1..(Cardinality(timers) + 2) :
    /\ id # hoverTimeoutRef
    /\ \A t \in timers : t.id # id
    /\ \A j \in 1..(id - 1) : j = hoverTimeoutRef \/ \E t \in timers : t.id = j

clearTimeout(id, pending) == { t \in pending : t.id # id }

\* (mutant) the pending timeout is not cleared before the next is scheduled
DebounceClearNothing == timers

\* setHoveredEpisodeDebounced: if (hoverTimeoutRef.current) clearTimeout(...)
DebounceClear ==
  IF hoverTimeoutRef # 0 THEN clearTimeout(hoverTimeoutRef, timers) ELSE timers

\* (mutant) the timeout is scheduled without its delay
DebounceScheduleNoDelay(pending, id, idx) ==
  pending \cup { [ id |-> id, due |-> now, idx |-> idx ] }

\* setHoveredEpisodeDebounced: hoverTimeoutRef.current = setTimeout(() => ..., 50)
DebounceSchedule(pending, id, idx) ==
  pending \cup { [ id |-> id, due |-> now + HoverDelay, idx |-> idx ] }

\* Timeline cell onMouseEnter
CellEnter(i) ==
  /\ Interactive
  /\ IsVisibleCell(i)
  /\ LET id == FreshTimerId
     IN  /\ timers' = DebounceSchedule(DebounceClear, id, i)
         /\ hoverTimeoutRef' = id
  /\ lastHover' = [ at |-> now, idx |-> i,
                    n |-> IF lastHover.n > 0 /\ updates = << >>
                            THEN (IF lastHover.n < BurstCap
                                    THEN lastHover.n + 1 ELSE BurstCap)
                            ELSE 1 ]
  /\ updates' = << >>
  /\ UNCHANGED << rawData, data, selectedEntity, entityType, hoveredEpisode,
                  pinnedEpisode, sortBy, cellSize, includeLiveEps, colorMode,
                  searchQuery, hoveredEntity, now, mounted, containerWidth,
                  resizeObserver >>

\* (mutant) the row leave does not clear the pending timeout
LeaveClearNothing == timers

\* Timeline row onMouseLeave: if (hoverTimeoutRef.current) clearTimeout(...)
LeaveClear ==
  IF hoverTimeoutRef # 0 THEN clearTimeout(hoverTimeoutRef, timers) ELSE timers

RowLeave ==
  /\ Interactive
  /\ timers' = LeaveClear
  /\ hoveredEpisode' = NULL
  /\ lastHover' = Left
  /\ updates' = << >>
  /\ UNCHANGED << rawData, data, selectedEntity, entityType, pinnedEpisode,
                  sortBy, cellSize, includeLiveEps, colorMode, searchQuery,
                  hoveredEntity, hoverTimeoutRef, now, mounted, containerWidth,
                  resizeObserver >>

\* The timeout's callback, () => setHoveredEpisode(idx), run by the host once
\* the timeout is due.  React drops a state update of an unmounted component.
TimerFire(t) ==
  /\ t \in timers
  /\ t.due <= now
  /\ timers' = timers \ { t }
  /\ hoveredEpisode' = IF mounted THEN t.idx ELSE hoveredEpisode
  /\ updates' = IF mounted
                  THEN Append(updates, [ at |-> now, idx |-> hoveredEpisode' ])
                  ELSE updates
  /\ UNCHANGED << rawData, data, selectedEntity, entityType, pinnedEpisode,
                  sortBy, cellSize, includeLiveEps, colorMode, searchQuery,
                  hoveredEntity, hoverTimeoutRef, now, mounted, containerWidth,
                  resizeObserver, lastHover >>

\* The clock advances; it never passes a timeout that is due
SetMin(S) == CHOOSE x \in S : \A y \in S : x <= y

Tick ==
  /\ now < MaxTime
  /\ \A t \in timers : t.due > now
  /\ now' = SetMin({ now + TickLen, MaxTime } \cup { t.due : t \in timers })
  /\ UNCHANGED << rawData, data, selectedEntity, entityType, hoveredEpisode,
                  pinnedEpisode, sortBy, cellSize, includeLiveEps, colorMode,
                  searchQuery, hoveredEntity, hoverTimeoutRef, timers, mounted,
                  containerWidth, resizeObserver, lastHover, updates >>

--------------------------------------------------------------------------
(* The sizing effect, its ResizeObserver, and teardown                     *)

\* useState(11)
InitialCellSize == 11

\* (mutant) a cleanup that leaves the observer connected
EffectCleanupKeeps(observers) == observers

\* The effect's cleanup: () => resizeObserver.disconnect()
EffectCleanup(observers) == {}

\* The "Include live eps" checkbox: onChange, and the click that bubbles to
\* the root.  includeLiveEps is a dependency of the sizing effect, which
\* cleans up and runs again in the render that follows.
ToggleLive ==
  /\ Interactive
  /\ includeLiveEps' = ~includeLiveEps
  /\ LET n == RowCardinality(data, ~includeLiveEps)
     IN  /\ resizeObserver' =
              EffectCleanup(resizeObserver) \cup EffectObservers(n, cellSize)
         /\ cellSize' = EffectCellSize(n, cellSize, containerWidth)
  /\ pinnedEpisode' = handleBackgroundClick("other", pinnedEpisode)
  /\ UNCHANGED << rawData, data, selectedEntity, entityType, hoveredEpisode,
                  sortBy, colorMode, searchQuery, hoveredEntity,
                  hoverTimeoutRef, timers, now, mounted, containerWidth,
                  lastHover, updates >>

\* The container is measured at a new width: each connected observer runs
\* its updateCellSize
Resize(w) ==
  /\ w \in Widths
  /\ w # containerWidth
  /\ containerWidth' = w
  /\ \/ /\ resizeObserver = {} \/ ~mounted
        /\ cellSize' = cellSize
     \/ /\ mounted
        /\ \E ob \in resizeObserver :
             cellSize' = updateCellSize(ob.cellSize, ob.n, w, cellSize)
  /\ UNCHANGED << rawData, data, selectedEntity, entityType, hoveredEpisode,
                  pinnedEpisode, sortBy, includeLiveEps, colorMode,
                  searchQuery, hoveredEntity, hoverTimeoutRef, timers, now,
                  mounted, resizeObserver, lastHover, updates >>

\* The first render of App and the first run of its sizing effect:
\* useMemo runs loadData.  An error thrown while rendering leaves nothing
\* mounted.
Mount ==
  /\ ~mounted
  /\ ~data.present
  /\ mounted' = ~Threw(loadData(rawData))
  /\ data' = loadData(rawData)
  /\ rawData' = rawAfterLoad(rawData)
  /\ UNCHANGED << selectedEntity, entityType, hoveredEpisode,
                  pinnedEpisode, sortBy, includeLiveEps, colorMode,
                  searchQuery, hoveredEntity, hoverTimeoutRef, timers, now,
                  containerWidth, lastHover, updates >>
  /\ resizeObserver' =
       EffectObservers(RowCardinality(data, FALSE),
                       InitialCellSize * SizeScale)'
  /\ cellSize' =
       EffectCellSize(RowCardinality(data, FALSE),
                      InitialCellSize * SizeScale, containerWidth)'

\* The view is unmounted: React runs the effects' cleanups.  The only
\* cleanup App registers is the sizing effect's.
Unmount ==
  /\ mounted
  /\ mounted' = FALSE
  /\ resizeObserver' = EffectCleanup(resizeObserver)
  /\ UNCHANGED << rawData, data, selectedEntity, entityType, hoveredEpisode,
                  pinnedEpisode, sortBy, cellSize, includeLiveEps, colorMode,
                  searchQuery, hoveredEntity, hoverTimeoutRef, timers, now,
                  containerWidth, lastHover, updates >>

--------------------------------------------------------------------------
(* Specifications                                                          *)

\* The state after App's first render and first run of the sizing effect,
\* CBB_DATA being the corpus c and the container being w wide
InitWith(c, w) ==
  /\ rawData = c
  /\ data = loadData(rawData)
  /\ selectedEntity = NullName
  /\ entityType = "guest"
  /\ hoveredEpisode = NULL
  /\ pinnedEpisode = NULL
  /\ sortBy = "appearances"
  /\ includeLiveEps = FALSE
  /\ colorMode = "guests"
  /\ searchQuery = << >>
  /\ hoveredEntity = NullEntity
  /\ hoverTimeoutRef = 0
  /\ timers = {}
  /\ now = 0
  /\ mounted = TRUE
  /\ containerWidth = w
  /\ resizeObserver =
       EffectObservers(RowCardinality(data, FALSE), InitialCellSize * SizeScale)
  /\ cellSize =
       EffectCellSize(RowCardinality(data, FALSE), InitialCellSize * SizeScale, w)
  /\ lastHover = NoHover
  /\ updates = << >>

InitAt(w) == InitWith(Corpus, w)

Init == InitAt(126)

\* Clicks and entity hovers: the selection and pin state machine
Next ==
  \/ \E i \in 0..(Len(episodes) - 1) : CellClick(i)
  \/ UnpinClick
  \/ \E k \in EntityTypes, name \in MapKeys(guestMap) \cup MapKeys(characterMap) :
       \/ ChipClick(k, name)
       \/ ChipEnter(k, name)
  \/ ChipLeave
  \/ \E name \in MapKeys(guestMap) \cup MapKeys(characterMap) :
       \/ ListClick(name)
       \/ ListEnter(name)
  \/ ListLeave
  \/ \E r \in Range(Related) :
       \/ RelatedClick(r)
       \/ RelatedEnter(r)
  \/ RelatedLeave
  \/ \E which \in Cards :
       \/ CardEnter(which)
       \/ CardClick(which)
  \/ CardLeave
  \/ \E t \in EntityTypes : TabClick(t)
  \/ \E q \in Queries : SetSearch(q)
  \/ \E k \in SortKeys : SetSort(k)
  \/ \E r \in { "summary", "other" } : InertClick(r)

Spec == Init /\ [][Next]_vars

\* The entity list: the tab, the search box, the sort buttons and the rows
InitQuery == \E c \in QueryCorpora : InitWith(c, 126)

NextQuery ==
  \/ \E t \in EntityTypes : TabClick(t)
  \/ \E q \in QueryTexts : SetSearch(q)
  \/ \E k \in SortKeys : SetSort(k)
  \/ \E name \in MapKeys(guestMap) \cup MapKeys(characterMap) : ListClick(name)

SpecQuery == InitQuery /\ [][NextQuery]_vars

\* The timeline's display: the color mode select and the live checkbox, for
\* each corpus that loads
InitTimeline == \E c \in Corpora \ MissingCorpora : InitWith(c, 126)

NextTimeline ==
  \/ \E m \in ColorModes : SetColorMode(m)
  \/ ToggleLive

SpecTimeline == InitTimeline /\ [][NextTimeline]_vars

\* One of each kind of interaction, under the virtual clock: select, hover,
\* pin, the debounce timer, search, sort, tab, color mode, live inclusion and
\* a new measurement of the container
NextFrame ==
  \/ ListClick(Al)
  \/ CellEnter(0)
  \/ CellClick(0)
  \/ \E t \in timers : TimerFire(t)
  \/ Tick
  \/ SetSearch(<< "b" >>)
  \/ SetSort("name")
  \/ TabClick("character")
  \/ SetColorMode("characters")
  \/ ToggleLive
  \/ Resize(125)

SpecFrame == Init /\ [][NextFrame]_vars

\* The timeline under the virtual clock: cell hovers, the debounce timer,
\* pinning, the appearance cards of a selected guest, and teardown
NextHover ==
  \/ \E i \in 0..(Len(episodes) - 1) :
       \/ CellEnter(i)
       \/ CellClick(i)
  \/ RowLeave
  \/ \E t \in timers : TimerFire(t)
  \/ Tick
  \/ \E name \in MapKeys(guestMap) : ListClick(name)
  \/ \E which \in Cards : CardEnter(which)
  \/ CardLeave

SpecHover == Init /\ [][NextHover]_vars

\* Teardown: the debounce timer and the resize observation around Unmount
NextTeardown ==
  \/ \E i \in 0..(Len(episodes) - 1) : CellEnter(i)
  \/ RowLeave
  \/ \E t \in timers : TimerFire(t)
  \/ Tick
  \/ \E w \in Widths : Resize(w)
  \/ Unmount

SpecTeardown == Init /\ [][NextTeardown]_vars

\* Sizing: measurements of the container and runs of the sizing effect, for
\* each of the sizing corpora and each first measurement
InitSizing == \E c \in SizingCorpora, w \in Widths : InitWith(c, w)

NextSizing ==
  \/ \E w \in Widths : Resize(w)
  \/ ToggleLive
  \/ \E m \in ColorModes : SetColorMode(m)

SpecSizing == InitSizing /\ [][NextSizing]_vars

\* Loading: the state before App's first render, for each corpus, and the
\* first render
InitLoad ==
  /\ rawData \in Corpora
  /\ data = [ present |-> FALSE ]
  /\ mounted = FALSE
  /\ selectedEntity = NullName
  /\ entityType = "guest"
  /\ hoveredEpisode = NULL
  /\ pinnedEpisode = NULL
  /\ sortBy = "appearances"
  /\ includeLiveEps = FALSE
  /\ colorMode = "guests"
  /\ searchQuery = << >>
  /\ hoveredEntity = NullEntity
  /\ hoverTimeoutRef = 0
  /\ timers = {}
  /\ now = 0
  /\ containerWidth = 126
  /\ resizeObserver = {}
  /\ cellSize = InitialCellSize * SizeScale
  /\ lastHover = NoHover
  /\ updates = << >>

NextLoad == Mount

SpecLoad == InitLoad /\ [][NextLoad]_vars

--------------------------------------------------------------------------
(* Properties of the debounced hover (SpecHover, SpecTeardown)             *)

EpisodeIdxs == 0..(Len(episodes) - 1)

AllNames == MapKeys(guestMap) \cup MapKeys(characterMap)

\* C1: a burst of cell hovers, each within HoverDelay of the one before,
\* yields exactly one hoveredEpisode update; it fires HoverDelay after the
\* last hover of the burst and carries that hover's idx.  Until it fires,
\* the one pending timeout is the last hover's.
C1_BurstYieldsOneUpdate ==
  (mounted /\ lastHover.n > 0) =>
    /\ Len(updates) <= 1
    /\ (updates = << >>) =>
         /\ now <= lastHover.at + HoverDelay
         /\ timers = { [ id |-> hoverTimeoutRef,
                         due |-> lastHover.at + HoverDelay,
                         idx |-> lastHover.idx ] }
    /\ (updates # << >>) =>
         /\ updates[1] = [ at |-> lastHover.at + HoverDelay,
                           idx |-> lastHover.idx ]
         /\ timers = {}

\* A burst of four hovers, the last at 30, has fired its one update at 80
C1_Witness ==
  /\ lastHover.n = 4
  /\ lastHover.at = 3 * TickLen
  /\ now = 3 * TickLen + HoverDelay
  /\ updates = << [ at |-> now, idx |-> lastHover.idx ] >>
  /\ hoveredEpisode = lastHover.idx

\* C2 (as stated): once the pointer has left the row, hoveredEpisode stays
\* none until a later cell hover's timeout elapses
C2_NoneUntilHoverTimer ==
  (lastHover = Left) => (hoveredEpisode = NULL)

\* C2 (amended): the row leave cancels the pending timeout and clears
\* hoveredEpisode; with no cell hover since the leave no timeout is pending
\* and no update fires, and hoveredEpisode leaves none only when the pointer
\* enters a First or Latest card of the selected entity
C2_LeaveCancels ==
  /\ [](lastHover = Left => (timers = {} /\ updates = << >>))
  /\ [][RowLeave => (hoveredEpisode' = NULL /\ timers' = {})]_vars
  /\ [][(lastHover = Left /\ lastHover' = Left
           /\ hoveredEpisode = NULL /\ hoveredEpisode' # NULL)
          => (DetailVisible /\ \E which \in Cards :
                                 hoveredEpisode' = CardIndex(which))]_vars

\* The leave came before the timeout of an earlier hover could have fired
C2_Witness ==
  /\ lastHover = Left
  /\ hoverTimeoutRef # 0
  /\ now > 0
  /\ now < HoverDelay
  /\ hoveredEpisode = NULL
  /\ timers = {}

\* C3: at most one debounce timeout is pending, it is the one the ref holds,
\* and one quiet period yields no second update
C3_OneTimerPending ==
  /\ Cardinality(timers) <= 1
  /\ \A t \in timers : t.id = hoverTimeoutRef
  /\ Len(updates) <= 1

\* A hover arrived while the timeout of the hover before it was pending
C3_Witness ==
  /\ lastHover.n >= 2
  /\ Cardinality(timers) = 1
  /\ now < HoverDelay

\* C4: once the view is torn down no debounce timeout is pending and no
\* resize observation is connected
C4_TeardownCancels ==
  (~mounted) => (timers = {} /\ resizeObserver = {})

\* C7: a cell click pins the clicked episode, or unpins it if it is the
\* pinned one; hoveredEpisode and the pending timeout are left alone; at
\* most one episode is pinned
C7_CellClickToggles ==
  /\ [](pinnedEpisode = NULL \/ pinnedEpisode \in EpisodeIdxs)
  /\ [][\A i \in EpisodeIdxs :
          CellClick(i) =>
            /\ pinnedEpisode' = (IF pinnedEpisode = i THEN NULL ELSE i)
            /\ hoveredEpisode' = hoveredEpisode
            /\ timers' = timers
            /\ hoverTimeoutRef' = hoverTimeoutRef]_vars

\* An episode is pinned while another is hovered and a timeout is pending
C7_Witness ==
  /\ pinnedEpisode # NULL
  /\ hoveredEpisode # NULL
  /\ hoveredEpisode # pinnedEpisode
  /\ timers # {}

\* C8: the summary shows the pinned episode if there is one and the hovered
\* episode otherwise; under a pin a fired timeout still updates
\* hoveredEpisode, and the summary and the pin do not change
C8_PinnedOverHovered ==
  /\ []((pinnedEpisode # NULL) => (displayEpisodeIdx = pinnedEpisode))
  /\ []((pinnedEpisode = NULL) => (displayEpisodeIdx = hoveredEpisode))
  /\ [][\A t \in timers :
          (TimerFire(t) /\ pinnedEpisode # NULL) =>
            /\ hoveredEpisode' = t.idx
            /\ pinnedEpisode' = pinnedEpisode
            /\ displayEpisodeIdx' = displayEpisodeIdx]_vars

\* Under a pin, a timeout has fired for a hover of another episode
C8_Witness ==
  /\ pinnedEpisode # NULL
  /\ updates # << >>
  /\ hoveredEpisode = updates[1].idx
  /\ hoveredEpisode # pinnedEpisode
  /\ displayEpisodeIdx = pinnedEpisode

--------------------------------------------------------------------------
(* Properties of the cell sizing (SpecSizing)                              *)

\* C11: whenever the container was last measured at a non-zero width that
\* gives a computed size of at least 4, the stored cell size is within 0.1
\* of that size
C11_StoredSizeTracksMeasurement ==
  (/\ mounted
   /\ maxEpisodesInYear > 0
   /\ containerWidth # 0
   /\ computeSize(containerWidth, maxEpisodesInYear) >= 4 * SizeScale)
  => 10 * Abs(cellSize - computeSize(containerWidth, maxEpisodesInYear))
       <= SizeScale

C13_FloorRejects ==
  /\ [](cellSize >= 4 * SizeScale)
  /\ [][\A w \in Widths :
          (Resize(w) /\ maxEpisodesInYear > 0
             /\ computeSize(w, maxEpisodesInYear) < 4 * SizeScale)
            => cellSize' = cellSize]_vars
  /\ [][(ToggleLive /\ maxEpisodesInYear' > 0
           /\ computeSize(containerWidth, maxEpisodesInYear') < 4 * SizeScale)
          => cellSize' = cellSize]_vars

\* A measured size, not the initial one, was kept through a measurement
\* that gave less than 4
C13_Witness ==
  /\ maxEpisodesInYear > 0
  /\ containerWidth # 0
  /\ computeSize(containerWidth, maxEpisodesInYear) < 4 * SizeScale
  /\ cellSize # InitialCellSize * SizeScale
  /\ resizeObserver # {}

\* C14: at most one resize observer is connected, it is the one of the
\* current row cardinality, and none is connected while the row
\* cardinality is 0
C14_OneObserver ==
  /\ Cardinality(resizeObserver) <= 1
  /\ \A ob \in resizeObserver : ob.n = maxEpisodesInYear
  /\ (maxEpisodesInYear = 0) => (resizeObserver = {})

\* The effect ran with a row cardinality of 1, measured, and was cleaned up
\* when the row cardinality went back to 0
C14_Witness ==
  /\ maxEpisodesInYear = 0
  /\ ~includeLiveEps
  /\ resizeObserver = {}
  /\ cellSize # InitialCellSize * SizeScale

--------------------------------------------------------------------------
(* Properties of selection, pinning and entity hover (Spec)                *)

\* C5 (as stated): every selection click, on a list row, a summary chip or
\* a related chip, selects the clicked entity with its kind, except that a
\* click on the selected entity clears the selection.  (A click that changes
\* nothing is no step, so the claim is stated on what the click can do.)
C5_EveryClickToggles ==
  /\ \A name \in AllNames :
       (Interactive /\ name \in ListedNames) =>
         ENABLED (/\ ListClick(name)
                  /\ IF selectedEntity = name
                       THEN selectedEntity' = NullName
                       ELSE selectedEntity' = name /\ entityType' = entityType)
  /\ \A k \in EntityTypes, name \in AllNames :
       (Interactive /\ name \in SummaryChips(k)) =>
         ENABLED (/\ ChipClick(k, name)
                  /\ IF selectedEntity = name /\ entityType = k
                       THEN selectedEntity' = NullName
                       ELSE selectedEntity' = name /\ entityType' = k)
  /\ \A r \in Range(Related) :
       Interactive =>
         ENABLED (/\ RelatedClick(r)
                  /\ IF selectedEntity = r.name /\ entityType = r.type
                       THEN selectedEntity' = NullName
                       ELSE selectedEntity' = r.name /\ entityType' = r.type)

\* C5 (amended): a list row click selects the row's entity, of the listed
\* kind, or clears the selection if the row is the selected one; a summary
\* chip click and a related chip click select the chip's entity with its
\* kind, whether or not it is the selected one
C5_SelectionClicks ==
  [][/\ \A name \in AllNames :
          ListClick(name) =>
            /\ MapHas(entityLookup, name)
            /\ entityType' = entityType
            /\ IF selectedEntity = name THEN selectedEntity' = NullName
               ELSE selectedEntity' = name
     /\ \A k \in EntityTypes, name \in AllNames :
          ChipClick(k, name) =>
            /\ MapHas(IF k = "guest" THEN guestMap ELSE characterMap, name)
            /\ selectedEntity' = name
            /\ entityType' = k
     /\ \A r \in Range(Related) :
          RelatedClick(r) =>
            /\ MapHas(IF r.type = "guest" THEN guestMap ELSE characterMap,
                      r.name)
            /\ selectedEntity' = r.name
            /\ entityType' = r.type]_vars

\* A character is selected that is on a chip of the pinned episode, and the
\* list, filtered by the search text, does not show it
C5_Witness ==
  /\ pinnedEpisode # NULL
  /\ entityType = "character"
  /\ selectedEntity \in SummaryChips("character")
  /\ selectedEntity \notin ListedNames

\* C6: a tab switch sets the kind to the tab's, clears the selection and
\* clears the search text
C6_TabSwitchClears ==
  [][\A t \in EntityTypes :
       TabClick(t) =>
         /\ entityType' = t
         /\ selectedEntity' = NullName
         /\ searchQuery' = << >>]_vars

\* On the character tab with a guest hovered in the list: the tab was
\* switched after the list was hovered, and nothing is selected
C6_Witness ==
  /\ entityType = "character"
  /\ selectedEntity = NullName
  /\ searchQuery = << >>
  /\ hoveredEntity.type = "guest"
  /\ hoveredEntity.name \notin SummaryChips("guest")

\* C9: a click outside the summary and the timeline cells clears the pin, a
\* click inside the summary never does, and with nothing pinned the
\* background handler leaves the pin state none
C9_BackgroundClick ==
  /\ [](\A q \in EpisodeIdxs \cup { NULL } :
          IF pinnedEpisode = NULL
            THEN \A r \in Regions : handleBackgroundClick(r, q) = q
            ELSE /\ handleBackgroundClick("other", q) = NULL
                 /\ handleBackgroundClick("summary", q) = q)
  /\ [][/\ InertClick("other") => pinnedEpisode' = NULL
        /\ InertClick("summary") => pinnedEpisode' = pinnedEpisode
        /\ \A k \in EntityTypes, name \in AllNames :
             ChipClick(k, name) => pinnedEpisode' = pinnedEpisode
        /\ \A name \in AllNames :
             (ListClick(name) /\ pinnedEpisode # NULL) => pinnedEpisode' = NULL
        /\ \A r \in Range(Related) :
             (RelatedClick(r) /\ pinnedEpisode # NULL) => pinnedEpisode' = NULL
        /\ \A which \in Cards :
             (CardClick(which) /\ pinnedEpisode # NULL) => pinnedEpisode' = NULL
        /\ \A t \in EntityTypes :
             (TabClick(t) /\ pinnedEpisode # NULL) => pinnedEpisode' = NULL
        /\ \A k \in SortKeys :
             (SetSort(k) /\ pinnedEpisode # NULL) => pinnedEpisode' = NULL]_vars

\* A chip of the pinned episode was clicked and the episode is still pinned
C9_Witness ==
  /\ pinnedEpisode # NULL
  /\ hoveredEpisode = NULL
  /\ entityType = "character"
  /\ selectedEntity \in SummaryChips("character")
  /\ searchQuery # << >>

\* C10: an entity hover sets hoveredEntity to the entity's name and kind and
\* a leave clears it; neither changes selectedEntity, entityType,
\* pinnedEpisode or hoveredEpisode
C10_EntityHover ==
  [][/\ \A name \in AllNames :
          ListEnter(name) =>
            /\ hoveredEntity' = [ name |-> name, type |-> entityType ]
            /\ MapHas(entityLookup, name)
     /\ \A k \in EntityTypes, name \in AllNames :
          ChipEnter(k, name) =>
            /\ hoveredEntity' = [ name |-> name, type |-> k ]
            /\ MapHas(IF k = "guest" THEN guestMap ELSE characterMap, name)
     /\ \A r \in Range(Related) :
          RelatedEnter(r) =>
            hoveredEntity' = [ name |-> r.name, type |-> r.type ]
     /\ (ListLeave \/ ChipLeave \/ RelatedLeave) => hoveredEntity' = NullEntity
     /\ (hoveredEntity' # hoveredEntity) =>
          UNCHANGED << selectedEntity, entityType, pinnedEpisode,
                       hoveredEpisode >>]_vars

\* A character is hovered while a guest is selected, an episode is pinned
\* and another episode is hovered
C10_Witness ==
  /\ hoveredEntity.type = "character"
  /\ hoveredEntity.name # NullName
  /\ entityType = "guest"
  /\ selectedEntity # NullName
  /\ pinnedEpisode # NULL
  /\ hoveredEpisode # NULL
  /\ hoveredEpisode # pinnedEpisode

\* C28: a click on the First or Latest card toggles the pin of the card's
\* episode as a cell click does: afterwards nothing is pinned if the card's
\* episode was pinned, and the card's episode is pinned otherwise, also when
\* another episode was pinned
C28_CardClickTogglesPin ==
  [][ \A which \in Cards :
        CardClick(which) =>
          pinnedEpisode' = IF pinnedEpisode = CardIndex(which) THEN NULL
                           ELSE CardIndex(which) ]_vars

\* C30: the selected entity is none or a name of the index of the current
\* kind: the guest index under the guest tab, the character index under
\* the character tab
C30_SelectionIsIndexed ==
  \/ selectedEntity = NullName
  \/ /\ entityType = "guest"
     /\ \E i \in DOMAIN data.guestMap : data.guestMap[i].name = selectedEntity
  \/ /\ entityType = "character"
     /\ \E i \in DOMAIN data.characterMap :
          data.characterMap[i].name = selectedEntity

\* A character is selected that the searched list does not show, its
\* first episode being pinned: the selection came from a chip
C30_Witness ==
  /\ entityType = "character"
  /\ selectedEntity = Cy
  /\ searchQuery = << "b" >>
  /\ pinnedEpisode = 0

--------------------------------------------------------------------------
(* Properties of loadData (SpecLoad)                                       *)

\* C15: the normalized episodes are the raw records whose date parses, in
\* ascending date order with records of one date in input order; each
\* episode's idx is its position and dates never decrease
C15_SortedStableIndexed ==
  data.present =>
    LET raw == rawData.episodes
        P   == { j \in DOMAIN raw : parseDate(raw[j].d) # NULL }
        before(k, j) ==
          \/ parseDate(raw[k].d) < parseDate(raw[j].d)
          \/ parseDate(raw[k].d) = parseDate(raw[j].d) /\ k < j
        rank(j) == Cardinality({ k \in P : before(k, j) })
    IN  /\ Len(data.episodes) = Cardinality(P)
        /\ \A j \in P :
             LET e == data.episodes[rank(j) + 1]
             IN  /\ e.title = raw[j].t
                 /\ e.number = raw[j].n
                 /\ e.guests = raw[j].g
                 /\ e.characters = raw[j].c
                 /\ e.date = parseDate(raw[j].d)
        /\ \A i \in DOMAIN data.episodes : data.episodes[i].idx = i - 1
        /\ \A i \in 1..(Len(data.episodes) - 1) :
             data.episodes[i].date <= data.episodes[i + 1].date

\* Three records, given latest first, the other two of one date: loaded,
\* the two keep their input order ahead of the first
C15_Witness ==
  /\ data.present
  /\ Len(rawData.episodes) = 3
  /\ Len(data.episodes) = 3
  /\ parseDate(rawData.episodes[1].d) > parseDate(rawData.episodes[2].d)
  /\ rawData.episodes[2].d = rawData.episodes[3].d
  /\ rawData.episodes[2].t # rawData.episodes[3].t
  /\ data.episodes[1].title = rawData.episodes[2].t
  /\ data.episodes[2].title = rawData.episodes[3].t
  /\ data.episodes[3].title = rawData.episodes[1].t

\* C16: a record whose date does not parse is dropped: there are as many
\* episodes as records whose date parses, and everything loadData builds
\* (episodes, entity records, year buckets, statistics) is what it builds
\* from the corpus without those records
C16_UnparseableDropped ==
  data.present =>
    LET raw  == rawData.episodes
        kept == SelectSeq(raw, LAMBDA e : parseDate(e.d) # NULL)
    IN  /\ Len(data.episodes) =
             Cardinality({ j \in DOMAIN raw : parseDate(raw[j].d) # NULL })
        /\ data = loadData([ rawData EXCEPT !.episodes = kept ])
        /\ \A i \in DOMAIN data.episodes : data.episodes[i].date # NULL

\* A record whose date does not parse stood between two that were kept,
\* and its guest is in no entity record
C16_Witness ==
  /\ data.present
  /\ Len(rawData.episodes) = 3
  /\ parseDate(rawData.episodes[2].d) = NULL
  /\ Len(data.episodes) = 2
  /\ rawData.episodes[2].g # << >>
  /\ \A i \in DOMAIN rawData.episodes[2].g :
       ~MapHas(data.guestMap, rawData.episodes[2].g[i])

\* C17 (as stated): for every corpus, every guest record's and every
\* character record's episodes are strictly ascending, firstIdx is their
\* minimum and lastIdx their maximum
C17_StrictlyAscending ==
  data.present =>
    \A map \in { data.guestMap, data.characterMap } :
      \A r \in DOMAIN map :
        LET eps == map[r].episodes
        IN  /\ eps # << >>
            /\ \A i, j \in DOMAIN eps : i < j => eps[i] < eps[j]
            /\ \A i \in DOMAIN eps : map[r].firstIdx <= eps[i]
            /\ map[r].firstIdx \in Range(eps)
            /\ \A i \in DOMAIN eps : eps[i] <= map[r].lastIdx
            /\ map[r].lastIdx \in Range(eps)

\* C17 (amended): every record's episodes are ascending and hold an
\* episode's index once for each time that episode's list names the
\* entity, so they are strictly ascending unless an episode names the
\* entity twice; firstIdx is their minimum and lastIdx their maximum
C17_AscendingPerListing ==
  data.present =>
    \A kind \in EntityTypes :
      LET map == IF kind = "guest" THEN data.guestMap ELSE data.characterMap
          listed(e) == IF kind = "guest" THEN e.guests ELSE e.characters
      IN  \A r \in DOMAIN map :
            LET eps == map[r].episodes
            IN  /\ eps # << >>
                /\ \A i, j \in DOMAIN eps : i < j => eps[i] <= eps[j]
                /\ \A x \in 0..(Len(data.episodes) - 1) :
                     Cardinality({ i \in DOMAIN eps : eps[i] = x }) =
                     Cardinality({ k \in DOMAIN listed(data.episodes[x + 1]) :
                                   listed(data.episodes[x + 1])[k] = map[r].name })
                /\ Range(eps) \subseteq 0..(Len(data.episodes) - 1)
                /\ \A i \in DOMAIN eps : map[r].firstIdx <= eps[i]
                /\ map[r].firstIdx \in Range(eps)
                /\ \A i \in DOMAIN eps : eps[i] <= map[r].lastIdx
                /\ map[r].lastIdx \in Range(eps)

\* A guest of the first and the last of three episodes, not of the second
C17_Witness ==
  /\ data.present
  /\ Len(data.episodes) = 3
  /\ \E r \in DOMAIN data.guestMap :
       /\ data.guestMap[r].episodes = << 0, 2 >>
       /\ data.guestMap[r].firstIdx = 0
       /\ data.guestMap[r].lastIdx = 2

\* C18: a character record's guests are exactly the guests of the episodes
\* in its episodes, each once
C18_PlayedByIsUnion ==
  data.present =>
    \A r \in DOMAIN data.characterMap :
      LET rec == data.characterMap[r]
      IN  /\ Range(rec.guests) =
               UNION { Range(data.episodes[x + 1].guests) :
                       x \in Range(rec.episodes) }
          /\ \A i, j \in DOMAIN rec.guests :
               rec.guests[i] = rec.guests[j] => i = j

\* A character of two episodes, one of them with two guests, whose other
\* episode brings a guest the first does not have
C18_Witness ==
  /\ data.present
  /\ \E r \in DOMAIN data.characterMap :
       \E x, y \in Range(data.characterMap[r].episodes) :
         /\ x # y
         /\ Cardinality(Range(data.episodes[x + 1].guests)) = 2
         /\ ~ (Range(data.episodes[y + 1].guests)
                 \subseteq Range(data.episodes[x + 1].guests))
         /\ Cardinality(Range(data.characterMap[r].guests)) = 3

\* C19: each of the five statistics is the exact maximum of what it
\* measures (0 over nothing): episodes per year, non-live episodes per
\* year, guests per episode, characters per episode, and characters per
\* guest over the episodes that have guests
C19_StatsAreMaxima ==
  data.present =>
    LET eps      == data.episodes
        st       == data.stats
        yrs      == { eps[i].year : i \in DOMAIN eps }
        bucket(y)  == { i \in DOMAIN eps : eps[i].year = y }
        nonLive(y) == { i \in bucket(y) : ~isLiveEpisode(eps[i]) }
        guested  == { i \in DOMAIN eps : Len(eps[i].guests) > 0 }
        IsMaxOf(m, S) == IF S = {} THEN m = 0
                         ELSE m \in S /\ \A x \in S : x <= m
        r        == st.maxCharactersPerGuest
    IN  /\ IsMaxOf(st.maxEpisodesWithLive,
                   { Cardinality(bucket(y)) : y \in yrs })
        /\ IsMaxOf(st.maxEpisodesWithoutLive,
                   { Cardinality(nonLive(y)) : y \in yrs })
        /\ IsMaxOf(st.maxGuests, { Len(eps[i].guests) : i \in DOMAIN eps })
        /\ IsMaxOf(st.maxCharacters,
                   { Len(eps[i].characters) : i \in DOMAIN eps })
        /\ r[2] > 0
        /\ IF guested = {} THEN r[1] = 0
           ELSE /\ \E i \in guested :
                     r[1] * Len(eps[i].guests) = Len(eps[i].characters) * r[2]
                /\ \A i \in guested :
                     Len(eps[i].characters) * r[2] <= r[1] * Len(eps[i].guests)

\* A corpus with an episode that has characters but no guest, a year
\* whose live episode makes the two per-year maxima differ, and two
\* characters per guest as the largest quotient
C19_Witness ==
  /\ data.present
  /\ \E i \in DOMAIN data.episodes :
       /\ data.episodes[i].num_guests = 0
       /\ data.episodes[i].num_characters > 0
  /\ data.stats.maxEpisodesWithLive = 2
  /\ data.stats.maxEpisodesWithoutLive = 1
  /\ data.stats.maxCharactersPerGuest[1] = 2 * data.stats.maxCharactersPerGuest[2]
  /\ data.stats.maxGuests = 2

\* C20 (as stated): an episode is live exactly when its number is not
\* digits with an optional dot-and-digits part, or a word of its title is
\* "live" in any letter case.  An episode without a number contradicts it.
C20_LiveIffNotNumericOrWord ==
  data.present =>
    \A e \in Range(data.episodes) :
      LET num   == e.number
          dots  == { k \in DOMAIN num : num[k] = "." }
          plain == /\ num # << >>
                   /\ \A k \in DOMAIN num : IsDigit(num[k]) \/ num[k] = "."
                   /\ Cardinality(dots) <= 1
                   /\ 1 \notin dots /\ Len(num) \notin dots
          t     == e.title
          word(a, b) ==
            /\ \A k \in a..b : IsWordChar(t[k])
            /\ (a > 1 => ~IsWordChar(t[a - 1]))
            /\ (b < Len(t) => ~IsWordChar(t[b + 1]))
          liveWord == \E a \in DOMAIN t :
                        /\ a + 3 <= Len(t)
                        /\ word(a, a + 3)
                        /\ toLowerCase(SubSeq(t, a, a + 3)) = LiveWord
      IN  isLiveEpisode(e) <=> (~plain \/ liveWord)

\* C20 (amended): an episode is live exactly when its number is not empty
\* and is not digits with an optional dot-and-digits part, or a word of its
\* title is "live" in any letter case; "live" inside a longer word does not
\* count
C20_LiveIffNonEmptyNotNumericOrWord ==
  data.present =>
    \A e \in Range(data.episodes) :
      LET num   == e.number
          dots  == { k \in DOMAIN num : num[k] = "." }
          plain == /\ num # << >>
                   /\ \A k \in DOMAIN num : IsDigit(num[k]) \/ num[k] = "."
                   /\ Cardinality(dots) <= 1
                   /\ 1 \notin dots /\ Len(num) \notin dots
          t     == e.title
          word(a, b) ==
            /\ \A k \in a..b : IsWordChar(t[k])
            /\ (a > 1 => ~IsWordChar(t[a - 1]))
            /\ (b < Len(t) => ~IsWordChar(t[b + 1]))
          liveWord == \E a \in DOMAIN t :
                        /\ a + 3 <= Len(t)
                        /\ word(a, a + 3)
                        /\ toLowerCase(SubSeq(t, a, a + 3)) = LiveWord
      IN  /\ isLiveEpisode(e) <=> ((num # << >> /\ ~plain) \/ liveWord)
          /\ (plain /\ ~liveWord /\ includes(toLowerCase(t), LiveWord))
               => ~isLiveEpisode(e)

\* A loaded episode with a numeric number whose title has "live" only
\* inside a longer word, counted as not live by the statistics
C20_Witness ==
  /\ data.present
  /\ Len(data.episodes) = 1
  /\ MatchesNumeric(data.episodes[1].number)
  /\ includes(toLowerCase(data.episodes[1].title), LiveWord)
  /\ ~isLiveEpisode(data.episodes[1])
  /\ data.stats.maxEpisodesWithoutLive = 1

\* C21 (as stated): number "BO2013.1" is live; number "145" with title
\* "The Best of CBB" is not; title "Live from Austin" is live; title
\* "I'll Always Live Here" with a numeric number is not live.  The last
\* title has the word "Live" and is classified live.
C21_ExamplesAsStated ==
  data.present =>
    \A e \in Range(data.episodes) :
      /\ e.number = NumberBO2013 => isLiveEpisode(e)
      /\ (e.number = Number145 /\ e.title = TitleBestOf) => ~isLiveEpisode(e)
      /\ e.title = TitleLiveFromAustin => isLiveEpisode(e)
      /\ (e.title = TitleAlwaysLiveHere /\ e.number = Number145)
           => ~isLiveEpisode(e)

\* C21 (amended): number "BO2013.1" is live; number "145" with title
\* "The Best of CBB" is not; title "Live from Austin" is live; title
\* "I'll Always Live Here" is live too, whatever its number; a year holding
\* only such an episode has no non-live episode
C21_Examples ==
  data.present =>
    \A e \in Range(data.episodes) :
      /\ e.number = NumberBO2013 => isLiveEpisode(e)
      /\ (e.number = Number145 /\ e.title = TitleBestOf) => ~isLiveEpisode(e)
      /\ e.title = TitleLiveFromAustin => isLiveEpisode(e)
      /\ e.title = TitleAlwaysLiveHere => isLiveEpisode(e)
      /\ (Len(data.episodes) = 1
            /\ (e.number = NumberBO2013
                  \/ e.title \in { TitleLiveFromAustin, TitleAlwaysLiveHere }))
           => data.stats.maxEpisodesWithoutLive = 0
      /\ (Len(data.episodes) = 1
            /\ e.number = Number145 /\ e.title = TitleBestOf)
           => data.stats.maxEpisodesWithoutLive = 1

\* The corpus of the one episode 145 "I'll Always Live Here" is loaded
C21_Witness ==
  /\ data.present
  /\ Len(data.episodes) = 1
  /\ data.episodes[1].number = Number145
  /\ data.episodes[1].title = TitleAlwaysLiveHere
  /\ data.stats.maxEpisodesWithLive = 1

\* C24: every episode is in the bucket of its year and in no other, every
\* bucket has an episode, each bucket lists its episodes in ascending index,
\* and years lists the bucket keys, each once, in ascending numeric order
C24_YearBucketsPartition ==
  data.present =>
    LET eps == data.episodes
        by  == data.episodesByYear
    IN  /\ \A i \in DOMAIN eps :
             \E b \in DOMAIN by :
               /\ by[b].year = eps[i].year
               /\ \E k \in DOMAIN by[b].eps : by[b].eps[k] = eps[i].idx
               /\ \A c \in DOMAIN by :
                    \A k \in DOMAIN by[c].eps :
                      by[c].eps[k] = eps[i].idx => c = b
        /\ \A b \in DOMAIN by :
             /\ by[b].eps # << >>
             /\ \A k \in DOMAIN by[b].eps :
                  /\ by[b].eps[k] \in 0..(Len(eps) - 1)
                  /\ eps[by[b].eps[k] + 1].year = by[b].year
             /\ \A j, k \in DOMAIN by[b].eps :
                  j < k => by[b].eps[j] < by[b].eps[k]
             /\ \A c \in DOMAIN by : by[c].year = by[b].year => c = b
        /\ Range(data.years) = { by[b].year : b \in DOMAIN by }
        /\ \A j, k \in DOMAIN data.years : j < k => data.years[j] < data.years[k]

\* C25: for CBB_DATA undefined, without an episode list, or with an empty
\* one, the first render throws nothing and shows the "no data" screen
C25_MissingCorpusReportsNoData ==
  [][ (Mount /\ ( \/ ~rawData.present
                  \/ "episodes" \notin DOMAIN rawData
                  \/ rawData.episodes = << >> ))
        => /\ ~Threw(data')
           /\ mounted'
           /\ ~data'.present ]_vars

--------------------------------------------------------------------------
(* Properties of the entity list (SpecQuery)                               *)

\* C22: the list holds exactly the records of the current kind's index
\* whose name contains the search text without regard to case, each once,
\* in the order of the sort key: most appearances first, latest last
\* episode first, earliest first episode first, or names in alphabetical
\* order; with a guest in episodes 0 and 2 and another in episode 1 the
\* first comes first by appearances and the search "b" keeps only the second
C22_QueryFiltersAndSorts ==
  LET out     == sortedEntities
      index   == IF entityType = "guest" THEN data.guestMap
                 ELSE data.characterMap
      matches == { r \in Range(index) :
                     includes(toLowerCase(r.name), toLowerCase(searchQuery)) }
      letters(n) == [ i \in DOMAIN n |->
                        CHOOSE k \in DOMAIN LowerCase :
                          LowerCase[k] = CharToLower(n[i]) ]
      before(x, y) == \/ x = y
                      \/ \E k \in DOMAIN y :
                           /\ k - 1 <= Len(x)
                           /\ \A j \in 1..(k - 1) : x[j] = y[j]
                           /\ (k > Len(x) \/ x[k] < y[k])
  IN  /\ Range(out) = matches
      /\ Len(out) = Cardinality(matches)
      /\ searchQuery = << >> => Len(out) = Len(index)
      /\ \A i, j \in DOMAIN out :
           i < j =>
             CASE sortBy = "appearances" ->
                    Len(out[i].episodes) >= Len(out[j].episodes)
               [] sortBy = "last"  -> out[i].lastIdx >= out[j].lastIdx
               [] sortBy = "first" -> out[i].firstIdx <= out[j].firstIdx
               [] sortBy = "name"  ->
                    before(letters(out[i].name), letters(out[j].name))
      /\ (rawData = QueryCorpus /\ entityType = "guest") =>
           /\ (sortBy = "appearances" /\ searchQuery = << >>) =>
                [ i \in DOMAIN out |-> out[i].name ] = << Al, Bo >>
           /\ searchQuery = << "b" >> =>
                [ i \in DOMAIN out |-> out[i].name ] = << Bo >>

\* Characters searched with "B" and sorted by name: "Abe" and "bea" are
\* kept, in that order
C22_Witness ==
  /\ rawData = QueryCorpus
  /\ entityType = "character"
  /\ searchQuery = << "B" >>
  /\ sortBy = "name"
  /\ [ i \in DOMAIN sortedEntities |-> sortedEntities[i].name ] = << Abe, bea >>

--------------------------------------------------------------------------
(* Properties of the timeline's cells (SpecTimeline)                       *)

\* C27 (as stated): an episode without guests does not count towards
\* maxCharactersPerGuest, and in color mode chars-per-guest its cell never
\* has the color of a ratio of 0.  Where the maximum is 0 every base color is
\* the one fixed color.
C27_NoGuestsNeverColoredAsZero ==
  LET guested == [ rawData EXCEPT !.episodes =
                     SelectSeq(@, LAMBDA e : e.g # << >>) ]
  IN  /\ data.stats.maxCharactersPerGuest =
           loadData(guested).stats.maxCharactersPerGuest
      /\ colorMode = "chars-per-guest" =>
           \A e \in Range(data.episodes) :
             e.num_guests = 0 =>
               ~SameColor(bgColor(e),
                          getEpisodeBaseColor(<< 0, 1 >>,
                                              data.stats.maxCharactersPerGuest))

\* C27 (amended): an episode without guests does not count towards
\* maxCharactersPerGuest, and in color mode chars-per-guest, when that
\* maximum is above 0, its cell does not have the color of a ratio of 0
C27_NoGuestsNotColoredAsZero ==
  LET guested == [ rawData EXCEPT !.episodes =
                     SelectSeq(@, LAMBDA e : e.g # << >>) ]
      max     == data.stats.maxCharactersPerGuest
  IN  /\ max = loadData(guested).stats.maxCharactersPerGuest
      /\ max[2] > 0
      /\ (colorMode = "chars-per-guest" /\ max[1] > 0) =>
           \A e \in Range(data.episodes) :
             e.num_guests = 0 =>
               ~SameColor(bgColor(e), getEpisodeBaseColor(<< 0, 1 >>, max))

\* In color mode chars-per-guest, with a positive maximum, a studio episode
\* without guests that has characters and one that has none
C27_Witness ==
  /\ colorMode = "chars-per-guest"
  /\ data.stats.maxCharactersPerGuest[1] > 0
  /\ \E e, f \in Range(data.episodes) :
       /\ e.num_guests = 0 /\ e.num_characters > 0 /\ ~isLiveEpisode(e)
       /\ bgColor(e).lightness = << 0 - 1, 0 >>
       /\ f.num_guests = 0 /\ f.num_characters = 0 /\ ~isLiveEpisode(f)
       /\ bgColor(f).lightness = << 0, 0 >>

\* C29: with live episodes shown or hidden, no year's row has more cells
\* than the row cardinality the sizing effect uses, a row shows all of its
\* year's episodes or all its non-live ones, and some row has exactly that
\* many cells when there are episodes
C29_RowsFitCardinality ==
  LET inYear(y) == { i \in 0..(Len(episodes) - 1) : episodes[i + 1].year = y }
      shown(y)  == IF includeLiveEps THEN inYear(y)
                   ELSE { i \in inYear(y) : ~isLiveEpisode(episodes[i + 1]) }
  IN  /\ maxEpisodesInYear =
           IF includeLiveEps THEN data.stats.maxEpisodesWithLive
           ELSE data.stats.maxEpisodesWithoutLive
      /\ \A ob \in resizeObserver : ob.n = maxEpisodesInYear
      /\ \A y \in Range(data.years) :
           /\ Range(filteredYearEps(y)) = shown(y)
           /\ Len(filteredYearEps(y)) = Cardinality(shown(y))
           /\ Len(filteredYearEps(y)) <= maxEpisodesInYear
      /\ episodes # << >> =>
           \E y \in Range(data.years) :
             Len(filteredYearEps(y)) = maxEpisodesInYear

\* Live episodes are shown, and the fullest row has a live episode: it is
\* longer than any row was while they were hidden
C29_Witness ==
  /\ includeLiveEps
  /\ data.stats.maxEpisodesWithLive > data.stats.maxEpisodesWithoutLive
  /\ data.stats.maxEpisodesWithoutLive > 0
  /\ \E y \in Range(data.years) :
       /\ Len(filteredYearEps(y)) = data.stats.maxEpisodesWithLive
       /\ \E k \in DOMAIN filteredYearEps(y) :
            isLiveEpisode(episodes[filteredYearEps(y)[k] + 1])

--------------------------------------------------------------------------
(* Properties of the loaded data under interaction (SpecFrame)             *)

\* C23: no interaction step changes the raw corpus, the episode sequence,
\* the guest or character index, the year buckets, the year axis or the
\* statistics
C23_InteractionLeavesDataAlone ==
  [][ /\ rawData' = rawData
      /\ data'.present = data.present
      /\ data'.episodes = data.episodes
      /\ data'.guestMap = data.guestMap
      /\ data'.characterMap = data.characterMap
      /\ data'.episodesByYear = data.episodesByYear
      /\ data'.years = data.years
      /\ data'.stats = data.stats ]_vars

\* After a selection, a fired hover timer, a pin, a sort by name, a color
\* mode change, a live toggle and a resize, the data are those loadData
\* built
C23_Witness ==
  /\ selectedEntity = Al
  /\ updates # << >>
  /\ pinnedEpisode = 0
  /\ sortBy = "name"
  /\ searchQuery = << "b" >>
  /\ colorMode = "characters"
  /\ includeLiveEps
  /\ containerWidth = 125
  /\ data = loadData(Corpus)

==========================================================================
